---- MODULE Spec2Model ----
(***************************************************************************)
(* Control-plane core of the intent-based SDN router.                      *)
(*                                                                         *)
(* The repository holds two controller programs:                           *)
(*   ver = 1 : controller/sdn_controller.py (served by api_server.py /     *)
(*             api_server_v2.py); the Intent Store is a Python list.       *)
(*   ver = 2 : controller/sdn_controller_v2.py with api_server_v3.py; the  *)
(*             Intent Store is an insertion-ordered dict keyed by the id   *)
(*             that api_server_v3.chat draws from next_intent_id.          *)
(* A behaviour is a run of one of the two programs; ver is fixed by Init.  *)
(*                                                                         *)
(* Every handler is one action.  The messages a handler hands to           *)
(* datapath.send_msg are collected, in order, in `sent`; `ev` records the  *)
(* handler that ran last, its inputs and its return value.                 *)
(***************************************************************************)
EXTENDS Integers, Sequences, FiniteSets, TLC

\* ------------------------------------------------------------------ bounds
\* switches that can register with the controller
NumSwitches == 2
\* host MAC addresses
NumMacs == 2
\* cap on the number of intents applied in one run
MaxApplies == 3
\* cap on the packet-in events counted by the v2 controller in one run
MaxPackets == 3
\* the clock runs from StartTime to StartTime + MaxTime seconds
MaxTime == 4

DPIDS == 1..NumSwitches
MACS == 1..NumMacs
\* switch ports a packet can come in at
PORTS == {1, 2}
\* the switches whose packet-in events are drawn
PACKET_DPIDS == {1, 2}

\* ------------------------------------------------- southbound constants
\* OpenFlow 1.3 reserved values, as signed 32-bit numbers
\* (0xffffffff, 0xfffffffb, 0xfffffffa, 0xfffffffd).
OFP_NO_BUFFER == -1
OFPP_FLOOD == -5
OFPP_NORMAL == -6
OFPP_CONTROLLER == -3
\* Python's None where a buffer id is expected (add_flow's default argument)
None == -2
\* buffer references a switch may put in a packet-in: none, id 0, id 7
BUFFER_IDS == {OFP_NO_BUFFER, 0, 7}
\* no buffer reference, and a buffer reference (id 7)
BUFFERS == {OFP_NO_BUFFER, 7}
\* the LLDP multicast destination (01:80:c2:00:00:0e), no member of MACS
NEAREST_BRIDGE == 0
\* ethertype classes of a packet-in payload
KINDS == {"ipv4", "arp", "lldp"}
\* payload lengths of a packet-in (len(msg.data))
LENS == {64}

VARIABLES
    ver,
    datapaths,
    connection,
    mac_to_port,
    intents,
    next_intent_id,
    packet_count,
    byte_count,
    last_packet_count,
    last_byte_count,
    last_stats_time,
    now,
    flows,
    port_stats,
    monitor,
    applying,
    listed,
    assigned,
    conversations,
    sent,
    ev

vars == <<ver, datapaths, connection, mac_to_port, intents, next_intent_id, packet_count,
          byte_count, last_packet_count, last_byte_count, last_stats_time, now,
          flows, port_stats, monitor, applying, listed, assigned, conversations,
          sent, ev>>

registryVars == <<datapaths, connection>>
macVars == <<mac_to_port>>
storeVars == <<intents, next_intent_id, assigned, listed>>
loadVars == <<packet_count, byte_count, last_packet_count, last_byte_count,
              last_stats_time>>
\* the statistics snapshots: self.flows (v1) / self.flow_stats (v2), and
\* self.port_stats (v2)
statsVars == <<flows, port_stats>>
\* the green threads that are inside a loop over the registry: the poller
\* (v1) and an apply_intent call that is installing its flows (v2)
threadVars == <<monitor, applying>>

\* ------------------------------------------------------------- helpers
\* dict.get(key, default) on a dict modelled as a function over its keys
Get(d, k, default) == IF k \in DOMAIN d THEN d[k] ELSE default

\* min(a, b) and max(a, b)
Min(a, b) == IF a < b THEN a ELSE b
Max(a, b) == IF a > b THEN a ELSE b

EmptyDict == [k \in {} |-> 0]

\* Python truthiness of an optional buffer id: None and 0 are falsy
Truthy(b) == b # None /\ b # 0

RECURSIVE Flatten(_)
Flatten(ss) == IF ss = <<>> THEN <<>> ELSE Head(ss) \o Flatten(Tail(ss))

Range(s) == {s[i] : i \in DOMAIN s}

\* ------------------------------------------------------------ messages
OFPActionOutput(port) == [output |-> port]

OFPMatch(fields) == fields

OFPFlowMod(dpid, buffer_id, priority, match, actions) ==
    [type |-> "OFPFlowMod", dpid |-> dpid, buffer_id |-> buffer_id,
     priority |-> priority, match |-> match, actions |-> actions,
     idle_timeout |-> 0, hard_timeout |-> 0]

OFPPacketOut(dpid, buffer_id, in_port, actions, data) ==
    [type |-> "OFPPacketOut", dpid |-> dpid, buffer_id |-> buffer_id,
     in_port |-> in_port, actions |-> actions, data |-> data]

OFPFlowStatsRequest(dpid) == [type |-> "OFPFlowStatsRequest", dpid |-> dpid]

OFPPortStatsRequest(dpid) == [type |-> "OFPPortStatsRequest", dpid |-> dpid]

IsFlowMod(m) == m.type = "OFPFlowMod"
IsPacketOut(m) == m.type = "OFPPacketOut"
IsStatsRequest(m) == m.type \in {"OFPFlowStatsRequest", "OFPPortStatsRequest"}

\* ------------------------------------------------------ Rule Installer
\* a Rule Installer that sends every flow-mod twice
add_flow_twice(dpid, priority, match, actions, buffer_id) ==
    <<OFPFlowMod(dpid, OFP_NO_BUFFER, priority, match, actions),
      OFPFlowMod(dpid, OFP_NO_BUFFER, priority, match, actions)>>

\* add_flow of both controllers: the flow-mod carries the buffer id only when
\* the argument is truthy; otherwise OFPFlowMod's default (OFP_NO_BUFFER).
add_flow(dpid, priority, match, actions, buffer_id) ==
    IF Truthy(buffer_id)
    THEN <<OFPFlowMod(dpid, buffer_id, priority, match, actions)>>
    ELSE <<OFPFlowMod(dpid, OFP_NO_BUFFER, priority, match, actions)>>

\* _request_stats: v1 asks for flow stats, v2 for flow stats and port stats
_request_stats(dpid) ==
    IF ver = 1 THEN <<OFPFlowStatsRequest(dpid)>>
    ELSE <<OFPFlowStatsRequest(dpid), OFPPortStatsRequest(dpid)>>

\* the requests of `for dp in self.datapaths.values(): self._request_stats(dp)`
RequestAll == Flatten([i \in DOMAIN datapaths |-> _request_stats(datapaths[i])])

\* --------------------------------------------------- Switch Registry
\* self.datapaths[datapath.id] = datapath on an insertion-ordered dict: a new
\* key goes last, a known key keeps its place.  The dict is modelled by the
\* sequence of its keys (a datapath object is identified with its id).
Register(dps, dpid) == IF dpid \in Range(dps) THEN dps ELSE Append(dps, dpid)

\* a registry that keeps the connection it saw first for a switch id
ConnectKeepFirst(conns, dpid, datapath) ==
    [k \in DOMAIN conns \cup {dpid} |->
        IF k \in DOMAIN conns THEN conns[k] ELSE datapath]

\* self.datapaths[datapath.id] = datapath, on the values of the dict: the
\* switch id is mapped to the connection of this event
Connect(conns, dpid, datapath) ==
    [k \in DOMAIN conns \cup {dpid} |-> IF k = dpid THEN datapath ELSE conns[k]]

\* a connect handler that also installs a rule for every stored intent
switch_features_handler_replay(dpid, datapath) ==
    /\ datapaths' = Register(datapaths, dpid)
    /\ connection' = Connect(connection, dpid, datapath)
    /\ sent' = add_flow(dpid, 0, OFPMatch(EmptyDict),
                         <<OFPActionOutput(OFPP_CONTROLLER)>>, None)
                \o Flatten([i \in DOMAIN intents |->
                              add_flow(dpid, intents[i].priority,
                                       OFPMatch([eth_type |-> 2048]),
                                       <<OFPActionOutput(OFPP_NORMAL)>>, None)])
                \o (IF ver = 2 THEN _request_stats(dpid) ELSE <<>>)
    /\ ev' = [op |-> "switch_features", dpid |-> dpid, datapath |-> datapath,
               known |-> dpid \in Range(datapaths)]
    /\ UNCHANGED <<ver, conversations, statsVars, threadVars, macVars, storeVars, loadVars, now>>

\* switch_features_handler of both controllers: register, install the
\* table-miss rule (empty match, output to the controller, priority 0);
\* v2 then requests the first statistics.
switch_features_handler(dpid, datapath) ==
    /\ datapaths' = Register(datapaths, dpid)
    /\ connection' = Connect(connection, dpid, datapath)
    /\ sent' = add_flow(dpid, 0, OFPMatch(EmptyDict),
                         <<OFPActionOutput(OFPP_CONTROLLER)>>, None)
                \o (IF ver = 2 THEN _request_stats(dpid) ELSE <<>>)
    /\ ev' = [op |-> "switch_features", dpid |-> dpid, datapath |-> datapath,
               known |-> dpid \in Range(datapaths)]
    /\ UNCHANGED <<ver, conversations, statsVars, threadVars, macVars, storeVars, loadVars, now>>

\* ------------------------------------------------------------ Poller
\* _monitor (v1), a green thread spawned by __init__:
\*     while True:
\*         for dp in self.datapaths.values(): self._request_stats(dp)
\*         hub.sleep(10)
\* The thread can be switched out inside datapath.send_msg (the send queue of
\* the connection blocks when it is full) and in hub.sleep, nowhere else.  One
\* step of the action runs the thread from one such point to the next:
\*   pc = "sleep": the loop takes an iterator over the registry (n = its
\*       size); an empty registry ends the round at once, else the first
\*       switch is sent its request;
\*   pc = "round": the iterator is asked for the next switch; it raises
\*       RuntimeError (dictionary changed size during iteration) when the
\*       registry no longer has n keys, and nothing catches it: the thread
\*       ends (pc = "dead"); else the next switch is sent its request, or the
\*       round is over and the thread sleeps.
\* The v2 controller has no such thread (pc = "none").
_monitor ==
    /\ ver = 1
    /\ monitor.pc \in {"sleep", "round"}
    /\ IF monitor.pc = "sleep"
       THEN IF datapaths = <<>>
            THEN /\ monitor' = monitor
                 /\ sent' = <<>>
                 /\ ev' = [op |-> "_monitor", dpid |-> 0, raised |-> FALSE]
            ELSE /\ monitor' = [pc |-> "round", i |-> 1, n |-> Len(datapaths)]
                 /\ sent' = _request_stats(datapaths[1])
                 /\ ev' = [op |-> "_monitor", dpid |-> datapaths[1],
                            raised |-> FALSE]
       ELSE IF Len(datapaths) # monitor.n
            THEN /\ monitor' = [pc |-> "dead", i |-> 0, n |-> 0]
                 /\ sent' = <<>>
                 /\ ev' = [op |-> "_monitor", dpid |-> 0, raised |-> TRUE]
            ELSE IF monitor.i < monitor.n
            THEN /\ monitor' = [monitor EXCEPT !.i = @ + 1]
                 /\ sent' = _request_stats(datapaths[monitor.i + 1])
                 /\ ev' = [op |-> "_monitor", dpid |-> datapaths[monitor.i + 1],
                            raised |-> FALSE]
            ELSE /\ monitor' = [pc |-> "sleep", i |-> 0, n |-> 0]
                 /\ sent' = <<>>
                 /\ ev' = [op |-> "_monitor", dpid |-> 0, raised |-> FALSE]
    /\ UNCHANGED <<ver, conversations, statsVars, applying, registryVars, macVars, storeVars,
                   loadVars, now>>

\* ------------------------------------------------- MAC Learning Table
\* a learning step that forgets the other addresses of the switch
ObserveForget(tbl, dpid, src, in_port) ==
    (dpid :> (src :> in_port)) @@ tbl

\* a learning step that keeps the port an address was first seen at
ObserveKeepFirst(tbl, dpid, src, in_port) ==
    LET t0 == IF dpid \in DOMAIN tbl THEN tbl ELSE (dpid :> EmptyDict) @@ tbl
    IN  [t0 EXCEPT ![dpid] = @ @@ (src :> in_port)]

\* self.mac_to_port.setdefault(dpid, {}); self.mac_to_port[dpid][src] = in_port
Observe(tbl, dpid, src, in_port) ==
    LET t0 == IF dpid \in DOMAIN tbl THEN tbl ELSE (dpid :> EmptyDict) @@ tbl
    IN  [t0 EXCEPT ![dpid] = (src :> in_port) @@ @]

\* the port recorded for (dpid, mac), OFPP_FLOOD when there is none
Lookup(tbl, dpid, mac) ==
    IF dpid \in DOMAIN tbl /\ mac \in DOMAIN tbl[dpid] THEN tbl[dpid][mac]
    ELSE OFPP_FLOOD

\* get_topology (v1): the registered switches, no links, and the number of
\* distinct MAC addresses over the tables of all switches
get_topology ==
    [switches |-> datapaths,
     links |-> <<>>,
     hosts |-> Cardinality(UNION {DOMAIN mac_to_port[d] : d \in DOMAIN mac_to_port})]

\* ------------------------------------------------ priority resolution
IsActive(intent) == Get(intent, "status", "none") = "active"

\* position of the first active intent of the list s, 0 when there is none
FirstActive(s) ==
    IF \E i \in DOMAIN s : IsActive(s[i])
    THEN CHOOSE i \in DOMAIN s :
             IsActive(s[i]) /\ \A j \in 1..(i - 1) : ~IsActive(s[j])
    ELSE 0

\* a resolution that takes the highest priority among the active intents
_get_intent_priority_max(kind) ==
    LET active == SelectSeq(intents, IsActive)
        top == CHOOSE i \in DOMAIN active :
                   \A j \in DOMAIN active : active[j].priority <= active[i].priority
    IN  IF kind # "ipv4" \/ active = <<>> THEN 1 ELSE active[top].priority

\* _get_intent_priority (v1): 1 for a packet without an IPv4 header, else the
\* priority of the first intent of the list whose status is active, else 1.
_get_intent_priority(kind) ==
    LET default_priority == 1
        i == FirstActive(intents)
    IN  IF kind # "ipv4" THEN default_priority
        ELSE IF i # 0 THEN Get(intents[i], "priority", default_priority)
        ELSE default_priority

\* ----------------------------------------------------- clock, counters
\* time.time() when the process starts, in whole seconds
START_TIMES == {0, 35}

\* the seconds the clock can show
TIMES == UNION {s..(s + MaxTime) : s \in START_TIMES}

\* packet counts the v2 controller may have reached when observation starts
PKT_START == {0, 8, 500, 2000}

\* byte counts that go with a nonzero packet count
BYTE_START == {512, 104857600, 125000000}

\* at most MaxPackets packet-in events are counted on top of a start count
CanCount == \E s \in PKT_START : packet_count - s \in 0..(MaxPackets - 1)

\* ------------------------------------------------ Packet-In Dispatcher
\* packet_in_handler of sdn_controller.py
packet_in_handler(dpid, in_port, src, dst, buffer_id, kind) ==
    LET learned == Observe(mac_to_port, dpid, src, in_port)
        out_port == Lookup(learned, dpid, dst)
        actions == <<OFPActionOutput(out_port)>>
        match == OFPMatch([in_port |-> in_port, eth_dst |-> dst, eth_src |-> src])
        priority == _get_intent_priority(kind)
        data == buffer_id = OFP_NO_BUFFER
        out == <<OFPPacketOut(dpid, buffer_id, in_port, actions, data)>>
    IN  /\ ver = 1
        /\ ev' = [op |-> "packet_in", dpid |-> dpid, in_port |-> in_port,
                   src |-> src, dst |-> dst, buffer_id |-> buffer_id,
                   kind |-> kind]
        /\ IF kind = "lldp"
           THEN /\ sent' = <<>>
                /\ UNCHANGED mac_to_port
           ELSE /\ mac_to_port' = learned
                /\ sent' =
                      IF out_port # OFPP_FLOOD
                      THEN IF buffer_id # OFP_NO_BUFFER
                           THEN add_flow(dpid, priority, match, actions, buffer_id)
                           ELSE add_flow(dpid, priority, match, actions, None) \o out
                      ELSE out
        /\ UNCHANGED <<ver, conversations, statsVars, threadVars, registryVars, storeVars, loadVars, now>>

\* packet_in_handler of sdn_controller_v2.py
packet_in_handler_v2(dpid, in_port, src, dst, buffer_id, len) ==
    LET learned == Observe(mac_to_port, dpid, src, in_port)
        out_port == Lookup(learned, dpid, dst)
        actions == <<OFPActionOutput(out_port)>>
        match == OFPMatch([in_port |-> in_port, eth_dst |-> dst])
        data == buffer_id = OFP_NO_BUFFER
        out == <<OFPPacketOut(dpid, buffer_id, in_port, actions, data)>>
        current_time == now
    IN  /\ ver = 2
        /\ CanCount
        /\ ev' = [op |-> "packet_in", dpid |-> dpid, in_port |-> in_port,
                   src |-> src, dst |-> dst, buffer_id |-> buffer_id,
                   kind |-> "ipv4"]
        /\ packet_count' = packet_count + 1
        /\ byte_count' = byte_count + len
        /\ mac_to_port' = learned
        /\ sent' = (IF out_port # OFPP_FLOOD
                    THEN add_flow(dpid, 1, match, actions, None) ELSE <<>>)
                   \o out
                   \o (IF current_time - last_stats_time > 3
                       THEN RequestAll ELSE <<>>)
        /\ UNCHANGED <<ver, conversations, statsVars, threadVars, registryVars, storeVars, last_packet_count,
                       last_byte_count, last_stats_time, now>>

\* packet_in_handler of sdn_controller.py for a known destination when
\* datapath.send_msg raises for the flow-mod: add_flow has no try/except and
\* neither has the handler, so the exception leaves the handler after the
\* learning step and nothing is sent.
packet_in_handler_send_raises(dpid, in_port, src, dst, buffer_id, kind) ==
    LET learned == Observe(mac_to_port, dpid, src, in_port)
        out_port == Lookup(learned, dpid, dst)
    IN  /\ ver = 1
        /\ kind # "lldp"
        /\ out_port # OFPP_FLOOD
        /\ ev' = [op |-> "packet_in", dpid |-> dpid, in_port |-> in_port,
                   src |-> src, dst |-> dst, buffer_id |-> buffer_id,
                   kind |-> kind, send_raised |-> TRUE]
        /\ mac_to_port' = learned
        /\ sent' = <<>>
        /\ UNCHANGED <<ver, conversations, statsVars, threadVars, registryVars, storeVars, loadVars, now>>

\* packet_in_handler of sdn_controller_v2.py for a known destination when
\* datapath.send_msg raises for the flow-mod: add_flow catches and logs, and
\* the handler goes on to the packet-out and the stats requests.
packet_in_handler_v2_send_raises(dpid, in_port, src, dst, buffer_id, len) ==
    LET learned == Observe(mac_to_port, dpid, src, in_port)
        out_port == Lookup(learned, dpid, dst)
        actions == <<OFPActionOutput(out_port)>>
        data == buffer_id = OFP_NO_BUFFER
        out == <<OFPPacketOut(dpid, buffer_id, in_port, actions, data)>>
        current_time == now
    IN  /\ ver = 2
        /\ CanCount
        /\ out_port # OFPP_FLOOD
        /\ ev' = [op |-> "packet_in", dpid |-> dpid, in_port |-> in_port,
                   src |-> src, dst |-> dst, buffer_id |-> buffer_id,
                   kind |-> "ipv4", send_raised |-> TRUE]
        /\ packet_count' = packet_count + 1
        /\ byte_count' = byte_count + len
        /\ mac_to_port' = learned
        /\ sent' = out \o (IF current_time - last_stats_time > 3
                           THEN RequestAll ELSE <<>>)
        /\ UNCHANGED <<ver, conversations, statsVars, threadVars, registryVars, storeVars, last_packet_count,
                       last_byte_count, last_stats_time, now>>

\* time.time() advances between handlers
Tick ==
    /\ now + 1 \in TIMES
    /\ now' = now + 1
    /\ sent' = <<>>
    /\ ev' = [op |-> "tick"]
    /\ UNCHANGED <<ver, conversations, statsVars, threadVars, registryVars, macVars, storeVars, loadVars>>

\* ------------------------------------------------- Flow Rule Compiler
\* A protocol selector is a Python str, modelled as the sequence of its
\* characters.  The alphabet of the model: letters, decimal digits, "/", "-".
DIGITS == <<"0", "1", "2", "3", "4", "5", "6", "7", "8", "9">>

IsDigit(c) == \E i \in DOMAIN DIGITS : DIGITS[i] = c

DigitVal(c) == (CHOOSE i \in DOMAIN DIGITS : DIGITS[i] = c) - 1

\* `c in s`
Contains(s, c) == \E i \in DOMAIN s : s[i] = c

\* s.split(c): the parts of s between the occurrences of c
RECURSIVE Split(_, _)
Split(s, c) ==
    IF ~Contains(s, c) THEN <<s>>
    ELSE LET i == CHOOSE k \in DOMAIN s :
                      s[k] = c /\ \A j \in 1..(k - 1) : s[j] # c
         IN  <<SubSeq(s, 1, i - 1)>> \o Split(SubSeq(s, i + 1, Len(s)), c)

\* int(s) succeeds on a non-empty string of decimal digits
IsInt(s) == s # <<>> /\ \A i \in DOMAIN s : IsDigit(s[i])

RECURSIVE ToInt(_)
ToInt(s) ==
    IF s = <<>> THEN 0
    ELSE 10 * ToInt(SubSeq(s, 1, Len(s) - 1)) + DigitVal(s[Len(s)])

\* str.upper() on the letters of the alphabet
UpperChar(c) ==
    CASE c = "t" -> "T" [] c = "c" -> "C" [] c = "p" -> "P"
      [] c = "u" -> "U" [] c = "d" -> "D" [] OTHER -> c

Upper(s) == [i \in DOMAIN s |-> UpperChar(s[i])]

\* the outcome of a call that sends messages and may raise
Done(msgs) == [raised |-> FALSE, msgs |-> msgs]
Raised(msgs) == [raised |-> TRUE, msgs |-> msgs]

\* a compiler that keeps the end port of a range
_install_protocol_rule_end(dpid, protocol, priority) ==
    IF ~Contains(protocol, "/") THEN Done(<<>>)
    ELSE
      LET parts == Split(protocol, "/")
          range == Split(parts[2], "-")
          port == ToInt(range[Len(range)])
          ip_proto == IF Upper(parts[1]) = <<"T", "C", "P">> THEN 6 ELSE 17
          match == IF ip_proto = 6
                   THEN OFPMatch([eth_type |-> 2048, ip_proto |-> ip_proto,
                                  tcp_dst |-> port])
                   ELSE OFPMatch([eth_type |-> 2048, ip_proto |-> ip_proto,
                                  udp_dst |-> port])
      IN  IF Len(parts) # 2 \/ Len(range) > 2
             \/ \E i \in DOMAIN range : ~IsInt(range[i])
          THEN Raised(<<>>)
          ELSE Done(add_flow(dpid, priority, match,
                             <<OFPActionOutput(OFPP_NORMAL)>>, None))

\* _install_protocol_rule (v1): nothing for a selector without "/";
\* ValueError when the selector does not split into two parts at "/", when a
\* range does not split into two ints at "-", or when the port is no int;
\* a range keeps its start port; TCP (any case) is ip_proto 6 and every other
\* name is ip_proto 17; one flow-mod, output NORMAL, at the given priority.
_install_protocol_rule(dpid, protocol, priority) ==
    IF ~Contains(protocol, "/") THEN Done(<<>>)
    ELSE
      LET parts == Split(protocol, "/")
      IN  IF Len(parts) # 2 THEN Raised(<<>>)
          ELSE
            LET proto_name == parts[1]
                port_str == parts[2]
                range == Split(port_str, "-")
                bad == IF Contains(port_str, "-")
                       THEN Len(range) # 2 \/ ~IsInt(range[1]) \/ ~IsInt(range[2])
                       ELSE ~IsInt(port_str)
                port == IF Contains(port_str, "-") THEN ToInt(range[1])
                        ELSE ToInt(port_str)
                ip_proto == IF Upper(proto_name) = <<"T", "C", "P">> THEN 6 ELSE 17
                match == IF ip_proto = 6
                         THEN OFPMatch([eth_type |-> 2048, ip_proto |-> ip_proto,
                                        tcp_dst |-> port])
                         ELSE OFPMatch([eth_type |-> 2048, ip_proto |-> ip_proto,
                                        udp_dst |-> port])
                actions == <<OFPActionOutput(OFPP_NORMAL)>>
            IN  IF bad THEN Raised(<<>>)
                ELSE Done(add_flow(dpid, priority, match, actions, None))

\* QoS rules that put DNS at the priority of HTTPS
_apply_qos_priority_flat(dpid, priority) ==
    add_flow(dpid, priority,
             OFPMatch([eth_type |-> 2048, ip_proto |-> 6, tcp_dst |-> 443]),
             <<OFPActionOutput(OFPP_NORMAL)>>, None)
    \o add_flow(dpid, priority,
                OFPMatch([eth_type |-> 2048, ip_proto |-> 17, udp_dst |-> 53]),
                <<OFPActionOutput(OFPP_NORMAL)>>, None)

\* _apply_qos_priority (v1): TCP/443 at `priority`, UDP/53 at `priority - 10`
_apply_qos_priority(dpid, priority) ==
    add_flow(dpid, priority,
             OFPMatch([eth_type |-> 2048, ip_proto |-> 6, tcp_dst |-> 443]),
             <<OFPActionOutput(OFPP_NORMAL)>>, None)
    \o add_flow(dpid, priority - 10,
                OFPMatch([eth_type |-> 2048, ip_proto |-> 17, udp_dst |-> 53]),
                <<OFPActionOutput(OFPP_NORMAL)>>, None)

\* the selectors of one switch, in order, until one raises
RECURSIVE InstallSelectors(_, _, _)
InstallSelectors(dpid, protocols, priority) ==
    IF protocols = <<>> THEN Done(<<>>)
    ELSE LET r == _install_protocol_rule(dpid, Head(protocols), priority)
         IN  IF r.raised THEN r
             ELSE LET rest == InstallSelectors(dpid, Tail(protocols), priority)
                  IN  [raised |-> rest.raised, msgs |-> r.msgs \o rest.msgs]

\* the body of _apply_intent's loop for one switch: the selectors, then the
\* rules of the policy (QoS Priority only; Load Balance and Traffic Shaping
\* just log), then the log line that reads intent["name"] (KeyError when the
\* intent has no name)
ApplyToSwitch(dpid, intent) ==
    LET policy == Get(intent, "policy", "None")
        priority == Get(intent, "priority", 50)
        protocols == Get(intent, "protocols", <<>>)
        sel == InstallSelectors(dpid, protocols, priority)
        msgs == IF policy = "QoS Priority"
                THEN sel.msgs \o _apply_qos_priority(dpid, priority)
                ELSE sel.msgs
    IN  IF sel.raised THEN sel
        ELSE IF "name" \in DOMAIN intent THEN Done(msgs) ELSE Raised(msgs)

\* _apply_intent (v1): the switches of the registry in dict order; an
\* exception ends the loop
RECURSIVE ApplyToSwitches(_, _)
ApplyToSwitches(dps, intent) ==
    IF dps = <<>> THEN Done(<<>>)
    ELSE LET r == ApplyToSwitch(Head(dps), intent)
         IN  IF r.raised THEN r
             ELSE LET rest == ApplyToSwitches(Tail(dps), intent)
                  IN  [raised |-> rest.raised, msgs |-> r.msgs \o rest.msgs]

_apply_intent(intent) == ApplyToSwitches(datapaths, intent)

\* ----------------------------------------------------- Intent Store, v1
\* self.intent_policies of sdn_controller.py: the default priority of a policy
intent_policies ==
    ("QoS Priority" :> 100) @@ ("Load Balance" :> 50) @@ ("SSL Inspection" :> 80)
    @@ ("Traffic Shaping" :> 60) @@ ("Geo-Routing" :> 70)

\* request bodies of POST /api/intents
INTENT_DATA ==
    { EmptyDict,
      [policy |-> "QoS Priority"],
      [name |-> "lb", policy |-> "Load Balance", priority |-> 95],
      [policy |-> "Traffic Shaping", bandwidth |-> "100 Mbps"],
      [name |-> "mine", policy |-> "custom", priority |-> 30] }

\* ids a caller may ask to delete
INTENT_IDS == 1..(MaxApplies + 1)

\* add_intent (v1): id = len(self.intents) + 1; the priority is the default
\* of the policy, 50 for a policy without one; a priority in the request is
\* not read.  Appends, applies, returns the intent.
add_intent(intent_data) ==
    LET intent_id == Len(intents) + 1
        policy == Get(intent_data, "policy", "QoS Priority")
        intent == [id |-> intent_id,
                   name |-> Get(intent_data, "name", "Unnamed Intent"),
                   policy |-> policy,
                   bandwidth |-> Get(intent_data, "bandwidth", "unlimited"),
                   status |-> "active",
                   priority |-> Get(intent_policies, policy, 50),
                   auto_generated |-> FALSE]
    IN  /\ ver = 1
        /\ Len(assigned) < MaxApplies
        /\ intents' = Append(intents, intent)
        /\ listed' = IF listed.live THEN [listed EXCEPT !.value = intents']
                       ELSE listed
        /\ assigned' = Append(assigned, intent_id)
        /\ sent' = ApplyToSwitches(datapaths, intent).msgs
        /\ ev' = [op |-> "add_intent", data |-> intent_data, id |-> intent_id,
                   ret |-> intent]
        /\ UNCHANGED <<ver, conversations, statsVars, threadVars, registryVars, macVars, next_intent_id, loadVars, now>>

\* ------------------------------------- the policy generator (intent_parser)
\* self.intent_categories of intent_parser.py: policy and priority
intent_categories ==
    ("performance" :> [policy |-> "QoS Priority", priority |-> 100,
                       bandwidth |-> "5000 Mbps"])
    @@ ("security" :> [policy |-> "SSL Inspection", priority |-> 90,
                       bandwidth |-> "unlimited"])
    @@ ("limit" :> [policy |-> "Traffic Shaping", priority |-> 10,
                    bandwidth |-> "100 Mbps"])
    @@ ("balance" :> [policy |-> "Load Balance", priority |-> 50,
                      bandwidth |-> "10000 Mbps"])
    @@ ("reliability" :> [policy |-> "QoS Priority", priority |-> 80,
                          bandwidth |-> "3000 Mbps"])

\* self.user_roles of intent_parser.py
user_roles ==
    ("ceo" :> 100) @@ ("executive" :> 95) @@ ("manager" :> 80)
    @@ ("employee" :> 50) @@ ("guest" :> 10) @@ ("admin" :> 90) @@ ("it" :> 85)

\* self.time_modifiers of intent_parser.py, in halves: 'critical' 1.5 and
\* 'background' 0.5, the two factors that are exact binary fractions
time_modifiers == ("critical" :> 3) @@ ("background" :> 1)

\* "TCP/443"
TCP_443 == <<"T", "C", "P", "/", "4", "4", "3">>
\* "TCP/80"
TCP_80 == <<"T", "C", "P", "/", "8", "0">>

\* the inputs of _generate_policy: the detected category, the urgency of the
\* sentiment, context['user_role'] and context['time_modifier'] ("none" when
\* the context has no such key; "intern" is a role the table does not know)
CATEGORIES == DOMAIN intent_categories
URGENCIES == {"high", "medium", "low"}
USER_ROLES == {"none", "guest", "ceo", "intern"}
TIME_MODIFIERS == {"none", "critical", "background"}

\* _generate_policy of intent_parser.py for the default application 'web'
\* and a text that names no bandwidth figure:
\* the priority of the category, +10 capped at 100 for high urgency, -10
\* floored at 1 for low urgency, raised to the priority of the user role (50
\* for an unknown role), then int(priority * modifier)
_generate_policy(category, urgency, user_role, time_modifier) ==
    LET cat_data == intent_categories[category]
        p0 == cat_data.priority
        p1 == IF urgency = "high" THEN Min(100, p0 + 10)
              ELSE IF urgency = "low" THEN Max(1, p0 - 10)
              ELSE p0
        p2 == IF user_role = "none" THEN p1
              ELSE Max(p1, Get(user_roles, user_role, 50))
        p3 == IF time_modifier = "none" THEN p2
              ELSE (p2 * Get(time_modifiers, time_modifier, 2)) \div 2
        title == ("performance" :> "Performance") @@ ("security" :> "Security")
                 @@ ("limit" :> "Limit") @@ ("balance" :> "Balance")
                 @@ ("reliability" :> "Reliability")
    IN  [name |-> "Auto: " \o title[category] \o " for Web",
         policy |-> cat_data.policy,
         priority |-> p3,
         bandwidth |-> cat_data.bandwidth,
         application |-> "web",
         protocols |-> <<TCP_80, TCP_443>>]

\* add_intent_natural_language (v1) from the parsed configuration on, as it
\* is written against intent_parser.IntentParser: id = len(self.intents) + 1,
\* the policy, priority and protocols of policy_config are stored as they
\* are, status active; appends and applies.
add_intent_natural_language_parsed(policy_config) ==
    LET intent_id == Len(intents) + 1
        intent == [id |-> intent_id,
                   name |-> policy_config.name,
                   policy |-> policy_config.policy,
                   bandwidth |-> policy_config.bandwidth,
                   priority |-> policy_config.priority,
                   status |-> "active",
                   application |-> policy_config.application,
                   protocols |-> policy_config.protocols,
                   auto_generated |-> TRUE]
    IN  /\ ver = 1
        /\ intents = <<>>
        /\ Len(assigned) < MaxApplies
        /\ intents' = Append(intents, intent)
        /\ listed' = IF listed.live THEN [listed EXCEPT !.value = intents']
                       ELSE listed
        /\ assigned' = Append(assigned, intent_id)
        /\ sent' = ApplyToSwitches(datapaths, intent).msgs
        /\ ev' = [op |-> "add_intent_natural_language", id |-> intent_id,
                   ret |-> intent]
        /\ UNCHANGED <<ver, conversations, statsVars, threadVars, registryVars, macVars, next_intent_id, loadVars, now>>

\* add_intent_natural_language (v1): sdn_controller.py binds IntentParser to
\* intent_parser_v2.IntentParser, whose parse_intent(self, message) takes one
\* argument; the call parse_intent(user_input, context) raises TypeError
\* before the store is touched.
add_intent_natural_language ==
    /\ ver = 1
    /\ sent' = <<>>
    /\ ev' = [op |-> "add_intent_natural_language", ret |-> "TypeError"]
    /\ UNCHANGED <<ver, conversations, statsVars, threadVars, registryVars, macVars, storeVars, loadVars, now>>

\* remove_intent (v1): keeps the intents with another id; returns nothing
remove_intent(intent_id) ==
    /\ ver = 1
    /\ intents' = SelectSeq(intents, LAMBDA i : i.id # intent_id)
    /\ listed' = [listed EXCEPT !.live = FALSE]
    /\ sent' = <<>>
    /\ ev' = [op |-> "remove_intent", id |-> intent_id, ret |-> "None",
               before |-> intents]
    /\ UNCHANGED <<ver, conversations, statsVars, threadVars, registryVars, macVars, next_intent_id, assigned,
                   loadVars, now>>

\* ----------------------------------------------------- Intent Store, v2
\* the `intent` object of an LLM reply: any JSON value.  NonDict stands for
\* a truthy value that is no object (a string, a list).
NonDict == [nondict |-> TRUE]

IsDict(x) == "nondict" \notin DOMAIN x

LLM_INTENTS ==
    { [name |-> "Video", policy |-> "qos", priority |-> 85, protocol |-> "udp",
       action |-> "prioritize"],
      [policy |-> "QoS Priority", protocol |-> "TCP/443"],
      [name |-> "Guard", policy |-> "security", priority |-> 30,
       protocol |-> "both", action |-> "block"],
      [name |-> "Web", policy |-> "qos", priority |-> 90, action |-> "limit"],
      NonDict }

\* the `action` of an LLM reply
LLM_ACTIONS == {"apply", "propose", "info", "clarify", "error", "delete_all",
                "delete_all_confirmed"}

\* _apply_priority_flow (v2): one flow-mod per registered switch at the
\* intent's priority, output NORMAL; the match is TCP/443 for protocol "tcp",
\* UDP/443 for "udp" and all of IPv4 for anything else.
_apply_priority_flow(intent) ==
    LET priority == Get(intent, "priority", 100)
        protocol == Get(intent, "protocol", "tcp")
        match == IF protocol = "tcp"
                 THEN OFPMatch([eth_type |-> 2048, ip_proto |-> 6, tcp_dst |-> 443])
                 ELSE IF protocol = "udp"
                 THEN OFPMatch([eth_type |-> 2048, ip_proto |-> 17, udp_dst |-> 443])
                 ELSE OFPMatch([eth_type |-> 2048])
    IN  Flatten([i \in DOMAIN datapaths |->
                   add_flow(datapaths[i], priority, match,
                            <<OFPActionOutput(OFPP_NORMAL)>>, None)])

\* a dict that puts a new key first
DictSetFirst(d, record) ==
    IF \E i \in DOMAIN d : d[i].id = record.id
    THEN [i \in DOMAIN d |-> IF d[i].id = record.id THEN record ELSE d[i]]
    ELSE <<record>> \o d

\* self.intents[intent_id] = record on an insertion-ordered dict, modelled
\* by the sequence of its values (each holds its key in `id`)
DictSet(d, record) ==
    IF \E i \in DOMAIN d : d[i].id = record.id
    THEN [i \in DOMAIN d |-> IF d[i].id = record.id THEN record ELSE d[i]]
    ELSE Append(d, record)

Ids(d) == {d[i].id : i \in DOMAIN d}

\* a record whose priority defaults to 100
StoredIntentDefault100(intent_id, message, intent_spec) ==
    [id |-> intent_id,
     name |-> Get(intent_spec, "name", "Intent " \o ToString(intent_id)),
     policy |-> Get(intent_spec, "policy", "custom"),
     priority |-> Get(intent_spec, "priority", 100),
     bandwidth |-> "unlimited",
     status |-> "active",
     original_input |-> message,
     action |-> Get(intent_spec, "action", "prioritize"),
     protocol |-> Get(intent_spec, "protocol", "tcp")]

\* the record apply_intent (v2) stores for an LLM intent
StoredIntent(intent_id, message, intent_spec) ==
    [id |-> intent_id,
     name |-> Get(intent_spec, "name", "Intent " \o ToString(intent_id)),
     policy |-> Get(intent_spec, "policy", "custom"),
     priority |-> Get(intent_spec, "priority", 50),
     bandwidth |-> "unlimited",
     status |-> "active",
     original_input |-> message,
     action |-> Get(intent_spec, "action", "prioritize"),
     protocol |-> Get(intent_spec, "protocol", "tcp")]

\* apply_intent (v2): False, with nothing stored, when the intent is no
\* object (intent_spec.get raises); else the record is stored, the flows of a
\* "prioritize" intent are installed, and the result is True.
apply_intent(intent_id, intent_data) ==
    LET intent_spec == Get(intent_data, "intent", EmptyDict)
        record == StoredIntent(intent_id, Get(intent_data, "message", ""),
                               intent_spec)
    IN  IF ~IsDict(intent_spec)
        THEN [ret |-> "False", intents |-> intents, msgs |-> <<>>]
        ELSE [ret |-> "True", intents |-> DictSet(intents, record),
              msgs |-> IF record.action = "prioritize"
                       THEN _apply_priority_flow(record) ELSE <<>>]

\* a chat endpoint that applies an intent the conversation only proposes
chat_applies_proposals(message, parsed_response) ==
    LET intent_id == next_intent_id
        r == apply_intent(intent_id, [message |-> message,
                                      intent |-> parsed_response.intent])
    IN  /\ ver = 2
        /\ IF parsed_response.action \in {"apply", "propose"}
              /\ Get(parsed_response, "intent", EmptyDict) # EmptyDict
           THEN /\ Len(assigned) < MaxApplies
                /\ next_intent_id' = intent_id + 1
                /\ assigned' = Append(assigned, intent_id)
                /\ intents' = r.intents
                /\ UNCHANGED listed
                /\ sent' = r.msgs
                /\ ev' = [op |-> "chat", action |-> parsed_response.action,
                           intent |-> parsed_response.intent, id |-> intent_id,
                           ret |-> IF r.ret = "True" THEN "applied" ELSE "failed",
                           before |-> intents]
           ELSE /\ sent' = <<>>
                /\ ev' = [op |-> "chat", action |-> parsed_response.action,
                           id |-> 0, ret |-> parsed_response.action,
                           before |-> intents]
                /\ UNCHANGED storeVars
        /\ UNCHANGED <<ver, conversations, statsVars, threadVars, registryVars, macVars, loadVars, now>>

\* chat (api_server_v3), from the parsed reply on: a reply with action
\* "apply" and a truthy intent takes the next id and applies the intent;
\* every other reply is passed through.  The reply is what process_message
\* returned when its call of the LLM completed; the conversation step of the
\* request is process_message.
chat(message, parsed_response) ==
    LET intent_id == next_intent_id
        r == apply_intent(intent_id, [message |-> message,
                                      intent |-> parsed_response.intent])
    IN  /\ ver = 2
        /\ IF parsed_response.action = "apply"
              /\ Get(parsed_response, "intent", EmptyDict) # EmptyDict
           THEN /\ Len(assigned) < MaxApplies
                /\ next_intent_id' = intent_id + 1
                /\ assigned' = Append(assigned, intent_id)
                /\ intents' = r.intents
                /\ UNCHANGED listed
                /\ sent' = r.msgs
                /\ ev' = [op |-> "chat", action |-> parsed_response.action,
                           intent |-> parsed_response.intent, id |-> intent_id,
                           ret |-> IF r.ret = "True" THEN "applied" ELSE "failed",
                           before |-> intents]
           ELSE /\ sent' = <<>>
                /\ ev' = [op |-> "chat", action |-> parsed_response.action,
                           id |-> 0, ret |-> parsed_response.action,
                           before |-> intents]
                /\ UNCHANGED storeVars
        /\ UNCHANGED <<ver, conversations, statsVars, threadVars, registryVars, macVars, loadVars, now>>

\* the replies _parse_llm_response can hand to chat
LLM_REPLIES ==
    {[action |-> a] : a \in LLM_ACTIONS}
    \cup {[action |-> a, intent |-> i] : a \in {"apply", "propose"},
                                         i \in LLM_INTENTS}

\* a delete that also sends a flow-mod to every registered switch
delete_intent_uninstalls(intent_id) ==
    /\ ver = 2
    /\ intents' = SelectSeq(intents, LAMBDA i : i.id # intent_id)
    /\ UNCHANGED listed
    /\ sent' = Flatten([i \in DOMAIN datapaths |->
                            add_flow(datapaths[i], 0, OFPMatch(EmptyDict), <<>>, None)])
    /\ ev' = [op |-> "delete_intent", id |-> intent_id,
               ret |-> IF intent_id \in Ids(intents) THEN "True" ELSE "False",
               before |-> intents]
    /\ UNCHANGED <<ver, conversations, statsVars, threadVars, registryVars, macVars, next_intent_id, assigned,
                   loadVars, now>>

\* delete_intent (v2): True and the key removed when it is in the dict,
\* else False
delete_intent(intent_id) ==
    /\ ver = 2
    /\ intents' = SelectSeq(intents, LAMBDA i : i.id # intent_id)
    /\ UNCHANGED listed
    /\ sent' = <<>>
    /\ ev' = [op |-> "delete_intent", id |-> intent_id,
               ret |-> IF intent_id \in Ids(intents) THEN "True" ELSE "False",
               before |-> intents]
    /\ UNCHANGED <<ver, conversations, statsVars, threadVars, registryVars, macVars, next_intent_id, assigned,
                   loadVars, now>>

\* a delete-all that counts the intents after it cleared the dict
delete_all_intents_counted_late ==
    /\ ver = 2
    /\ intents' = <<>>
    /\ UNCHANGED listed
    /\ sent' = <<>>
    /\ ev' = [op |-> "delete_all_intents", ret |-> Len(intents'),
               before |-> intents, again |-> ev.op = "delete_all_intents"]
    /\ UNCHANGED <<ver, conversations, statsVars, threadVars, registryVars, macVars, next_intent_id, assigned,
                   loadVars, now>>

\* delete_all_intents (v2): clears the dict, returns how many it held
delete_all_intents ==
    /\ ver = 2
    /\ intents' = <<>>
    /\ UNCHANGED listed
    /\ sent' = <<>>
    /\ ev' = [op |-> "delete_all_intents", ret |-> Len(intents),
               before |-> intents, again |-> ev.op = "delete_all_intents"]
    /\ UNCHANGED <<ver, conversations, statsVars, threadVars, registryVars, macVars, next_intent_id, assigned,
                   loadVars, now>>

\* the list get_intents (v2) builds: a new list of new dicts, seven fields
\* each, in the order of self.intents.items()
intents_list ==
    [i \in DOMAIN intents |->
       [id |-> intents[i].id,
        name |-> Get(intents[i], "name", "Unknown Intent"),
        policy |-> Get(intents[i], "policy", "custom"),
        priority |-> Get(intents[i], "priority", 50),
        bandwidth |-> Get(intents[i], "bandwidth", "unlimited"),
        status |-> Get(intents[i], "status", "active"),
        original_input |-> Get(intents[i], "original_input", "")]]

\* get_intents (v2): the caller holds the new list (`listed`, not live)
get_intents ==
    /\ ver = 2
    /\ listed' = [live |-> FALSE, value |-> intents_list]
    /\ sent' = <<>>
    /\ ev' = [op |-> "get_intents", ret |-> intents_list, before |-> intents]
    /\ UNCHANGED <<ver, conversations, statsVars, threadVars, registryVars, macVars, intents,
                   next_intent_id, assigned, loadVars, now>>

\* get_intents (v1): return self.intents.  The caller holds the list object
\* of the store itself (`listed` is live): an append by add_intent shows in
\* it, until remove_intent binds self.intents to a new list.
get_intents_v1 ==
    /\ ver = 1
    /\ listed' = [live |-> TRUE, value |-> intents]
    /\ sent' = <<>>
    /\ ev' = [op |-> "get_intents", ret |-> intents, before |-> intents]
    /\ UNCHANGED <<ver, conversations, statsVars, threadVars, registryVars, macVars, intents,
                   next_intent_id, assigned, loadVars, now>>

\* the caller of get_intents removes the first element of the list it was
\* given; a live list is the store's own
caller_modifies ==
    /\ listed.value # <<>>
    /\ listed' = [listed EXCEPT !.value = Tail(@)]
    /\ intents' = IF listed.live THEN Tail(listed.value) ELSE intents
    /\ sent' = <<>>
    /\ ev' = [op |-> "caller_modifies", before |-> intents]
    /\ UNCHANGED <<ver, conversations, statsVars, threadVars, registryVars, macVars,
                   next_intent_id, assigned, loadVars, now>>

\* ------------------------------- apply_intent (v2) between blocking points
\* The request handlers and the controller's event handlers are green threads
\* of one process: a handler runs until it blocks, and the only blocking call
\* of apply_intent is datapath.send_msg inside _apply_priority_flow.  The two
\* actions below run the handler from one blocking point to the next; the
\* handlers that never block stay single actions.  One apply is in flight at
\* a time.

\* the flow-mod _apply_priority_flow sends to one switch
_apply_priority_flow_dp(intent, dpid) ==
    LET priority == Get(intent, "priority", 100)
        protocol == Get(intent, "protocol", "tcp")
        match == IF protocol = "tcp"
                 THEN OFPMatch([eth_type |-> 2048, ip_proto |-> 6, tcp_dst |-> 443])
                 ELSE IF protocol = "udp"
                 THEN OFPMatch([eth_type |-> 2048, ip_proto |-> 17, udp_dst |-> 443])
                 ELSE OFPMatch([eth_type |-> 2048])
    IN  add_flow(dpid, priority, match, <<OFPActionOutput(OFPP_NORMAL)>>, None)

\* a chat endpoint that has read next_intent_id and not yet stored the
\* incremented value when apply_intent blocks in send_msg
apply_intent_begin_increment_late(message, parsed_response) ==
    LET intent_id == next_intent_id
        record == StoredIntent(intent_id, message, parsed_response.intent)
    IN  /\ ver = 2
        /\ applying.pc = "idle"
        /\ parsed_response.action = "apply"
        /\ IsDict(parsed_response.intent)
        /\ parsed_response.intent # EmptyDict
        /\ record.action = "prioritize"
        /\ datapaths # <<>>
        /\ Len(assigned) < MaxApplies
        /\ next_intent_id' = intent_id
        /\ assigned' = Append(assigned, intent_id)
        /\ intents' = DictSet(intents, record)
        /\ UNCHANGED listed
        /\ sent' = _apply_priority_flow_dp(record, datapaths[1])
        /\ applying' = [pc |-> "send_msg", id |-> intent_id, intent |-> record,
                        i |-> 1, n |-> Len(datapaths)]
        /\ ev' = [op |-> "chat", action |-> parsed_response.action,
                   intent |-> parsed_response.intent, id |-> intent_id,
                   ret |-> "pending", before |-> intents]
        /\ UNCHANGED <<ver, conversations, statsVars, monitor, registryVars, macVars, loadVars, now>>

\* chat with an "apply" reply holding a "prioritize" intent, at least one
\* switch registered: takes the next id, stores the record, starts the loop of
\* _apply_priority_flow and blocks in send_msg for the first switch.
apply_intent_begin(message, parsed_response) ==
    LET intent_id == next_intent_id
        record == StoredIntent(intent_id, message, parsed_response.intent)
    IN  /\ ver = 2
        /\ applying.pc = "idle"
        /\ parsed_response.action = "apply"
        /\ IsDict(parsed_response.intent)
        /\ parsed_response.intent # EmptyDict
        /\ record.action = "prioritize"
        /\ datapaths # <<>>
        /\ Len(assigned) < MaxApplies
        /\ next_intent_id' = intent_id + 1
        /\ assigned' = Append(assigned, intent_id)
        /\ intents' = DictSet(intents, record)
        /\ UNCHANGED listed
        /\ sent' = _apply_priority_flow_dp(record, datapaths[1])
        /\ applying' = [pc |-> "send_msg", id |-> intent_id, intent |-> record,
                        i |-> 1, n |-> Len(datapaths)]
        /\ ev' = [op |-> "chat", action |-> parsed_response.action,
                   intent |-> parsed_response.intent, id |-> intent_id,
                   ret |-> "pending", before |-> intents]
        /\ UNCHANGED <<ver, conversations, statsVars, monitor, registryVars, macVars, loadVars, now>>

\* the handler resumes after send_msg: the iterator of self.datapaths.values()
\* raises RuntimeError when the dict changed size (caught and logged by
\* _apply_priority_flow), else yields the next switch or ends; after the loop
\* apply_intent reads self.intents[intent_id] for its log line, and a missing
\* key raises KeyError, which its except clause turns into False.  `issued`
\* is the number of switches this apply has sent a flow-mod to.
apply_intent_resume ==
    /\ ver = 2
    /\ applying.pc = "send_msg"
    /\ IF Len(datapaths) = applying.n /\ applying.i < applying.n
       THEN /\ sent' = _apply_priority_flow_dp(applying.intent,
                                               datapaths[applying.i + 1])
            /\ applying' = [applying EXCEPT !.i = @ + 1]
            /\ ev' = [op |-> "apply_intent", id |-> applying.id,
                       ret |-> "pending", raised |-> FALSE, before |-> intents]
       ELSE /\ sent' = <<>>
            /\ applying' = [pc |-> "idle"]
            /\ ev' = [op |-> "apply_intent", id |-> applying.id,
                       ret |-> IF applying.id \in Ids(intents)
                               THEN "True" ELSE "False",
                       raised |-> Len(datapaths) # applying.n,
                       issued |-> applying.i,
                       before |-> intents]
    /\ UNCHANGED <<ver, conversations, statsVars, monitor, registryVars, macVars, storeVars,
                   loadVars, now>>

\* ---------------------------------------------------- Stats snapshots
\* the entries of an OFPFlowStatsReply: OFPFlowStats objects
FLOW_STATS_IDLE == [table_id |-> 0, duration_sec |-> 1, priority |-> 0,
                    packet_count |-> 0, byte_count |-> 0,
                    match |-> EmptyDict]
FLOW_STATS_BUSY == [table_id |-> 0, duration_sec |-> 5, priority |-> 1,
                    packet_count |-> 8, byte_count |-> 512,
                    match |-> [in_port |-> 1, eth_dst |-> 2]]

FLOW_BODIES == {<<>>, <<FLOW_STATS_BUSY>>, <<FLOW_STATS_IDLE, FLOW_STATS_BUSY>>}

\* the entries of an OFPPortStatsReply: OFPPortStats objects
PORT_STATS_1 == [port_no |-> 1, rx_packets |-> 8, tx_packets |-> 3,
                 rx_bytes |-> 512, tx_bytes |-> 192, rx_dropped |-> 0,
                 tx_dropped |-> 0, rx_errors |-> 0, tx_errors |-> 1,
                 duration_sec |-> 5]
PORT_STATS_2 == [port_no |-> 2, rx_packets |-> 0, tx_packets |-> 0,
                 rx_bytes |-> 0, tx_bytes |-> 0, rx_dropped |-> 0,
                 tx_dropped |-> 0, rx_errors |-> 0, tx_errors |-> 0,
                 duration_sec |-> 5]

PORT_BODIES == {<<>>, <<PORT_STATS_1, PORT_STATS_2>>}

\* a store that appends the entries of a reply to the snapshot it holds
SetSnapshotMerged(stats, dpid, entries) ==
    [k \in DOMAIN stats \cup {dpid} |->
        IF k = dpid THEN Get(stats, dpid, <<>>) \o entries ELSE stats[k]]

\* self.flows[dpid] = flows (v1), self.flow_stats[dpid] = flows and
\* self.port_stats[dpid] = ports (v2)
SetSnapshot(stats, dpid, entries) ==
    [k \in DOMAIN stats \cup {dpid} |-> IF k = dpid THEN entries ELSE stats[k]]

\* flow_stats_reply_handler of both controllers: one entry of four fields
\* per OFPFlowStats of the reply, stored under the switch id
flow_stats_reply_handler(dpid, body) ==
    LET flows_list == [i \in DOMAIN body |->
                         [packet_count |-> body[i].packet_count,
                          byte_count |-> body[i].byte_count,
                          duration |-> body[i].duration_sec,
                          priority |-> body[i].priority]]
    IN  /\ flows' = SetSnapshot(flows, dpid, flows_list)
        /\ sent' = <<>>
        /\ ev' = [op |-> "flow_stats_reply", dpid |-> dpid, body |-> body,
                   before |-> Get(flows, dpid, <<>>)]
        /\ UNCHANGED <<ver, conversations, port_stats, threadVars, registryVars, macVars, storeVars,
                       loadVars, now>>

\* port_stats_reply_handler (v2): one entry of seven fields per OFPPortStats
\* of the reply, stored under the switch id
port_stats_reply_handler(dpid, body) ==
    LET ports == [i \in DOMAIN body |->
                    [port_no |-> body[i].port_no,
                     rx_packets |-> body[i].rx_packets,
                     tx_packets |-> body[i].tx_packets,
                     rx_bytes |-> body[i].rx_bytes,
                     tx_bytes |-> body[i].tx_bytes,
                     rx_errors |-> body[i].rx_errors,
                     tx_errors |-> body[i].tx_errors]]
    IN  /\ ver = 2
        /\ port_stats' = SetSnapshot(port_stats, dpid, ports)
        /\ sent' = <<>>
        /\ ev' = [op |-> "port_stats_reply", dpid |-> dpid, body |-> body,
                   before |-> Get(port_stats, dpid, <<>>)]
        /\ UNCHANGED <<ver, conversations, flows, threadVars, registryVars, macVars, storeVars,
                       loadVars, now>>

\* ------------------------------------------------- Conversation Manager
\* self.max_history and self.timeout of ConversationManager, as configured by
\* MAX_CHAT_HISTORY=2 and CONVERSATION_TIMEOUT=2 (seconds)
max_history == 2
timeout == 2

\* _cleanup_conversations: every conversation idle for more than the
\* timeout is deleted, whoever its user is
_cleanup_conversations(convs, current_time) ==
    LET expired == {uid \in DOMAIN convs :
                        current_time - convs[uid].last_active > timeout}
    IN  [uid \in DOMAIN convs \ expired |-> convs[uid]]

\* process_message(user_id, message), with the reply of the LLM as
\* `response`: a conversation is created when the user has none, expired
\* conversations are cleaned up, _build_context reads
\* self.conversations[user_id] (KeyError when the clean-up removed it; the
\* except clause returns an error reply), the exchange is appended, the
\* oldest exchange is dropped beyond max_history and last_active is set.
process_message(user_id, message, response) ==
    LET created == IF user_id \in DOMAIN conversations THEN conversations
                   ELSE conversations
                        @@ (user_id :> [history |-> <<>>, last_active |-> now])
        cleaned == _cleanup_conversations(created, now)
        parsed_response == response
        appended == Append(cleaned[user_id].history,
                           [user |-> message, bot |-> parsed_response])
        history == IF Len(appended) > max_history THEN Tail(appended)
                   ELSE appended
    IN  /\ ver = 2
        /\ IF user_id \in DOMAIN cleaned
           THEN /\ conversations' =
                       [cleaned EXCEPT ![user_id] =
                           [history |-> history, last_active |-> now]]
                /\ ev' = [op |-> "process_message", user_id |-> user_id,
                           message |-> message, ret |-> parsed_response,
                           before |-> conversations]
           ELSE /\ conversations' = cleaned
                /\ ev' = [op |-> "process_message", user_id |-> user_id,
                           message |-> message,
                           ret |-> [action |-> "error", response |-> "KeyError"],
                           before |-> conversations]
        /\ sent' = <<>>
        /\ UNCHANGED <<ver, statsVars, threadVars, registryVars, macVars, storeVars, loadVars, now>>

\* ------------------------------------------------------ Load Estimator
\* Throughput is kept in hundredths of a Mbps (the result is rounded to two
\* decimals), time in whole seconds.

\* 10000 * sin(2 * pi * k / 60) for k = 0..59, at index k + 1
SIN60 ==
    << 0, 1045, 2079, 3090, 4067, 5000, 5878, 6691, 7431, 8090, 8660, 9135,
       9511, 9781, 9945, 10000, 9945, 9781, 9511, 9135, 8660, 8090, 7431, 6691,
       5878, 5000, 4067, 3090, 2079, 1045, 0, -1045, -2079, -3090, -4067, -5000,
       -5878, -6691, -7431, -8090, -8660, -9135, -9511, -9781, -9945, -10000,
       -9945, -9781, -9511, -9135, -8660, -8090, -7431, -6691, -5878, -5000,
       -4067, -3090, -2079, -1045 >>

\* 100 * amplitude * sin(cycles * 2 * pi * (t % 60) / 60)
Wave(amplitude, cycles, t) ==
    (amplitude * SIN60[((cycles * (t % 60)) % 60) + 1]) \div 100

\* random.uniform(-20, 25), in hundredths: the ends and the middle
JITTERS == {-2000, 0, 2500}

\* (byte_delta / elapsed) * 8 / (1024 * 1024) Mbps, in hundredths:
\* byte_delta * 25 / (32768 * elapsed)
Mbps100(byte_delta, elapsed) ==
    (25 * (byte_delta \div 32768) + (25 * (byte_delta % 32768)) \div 32768)
    \div elapsed

\* an estimator without the 950 Mbps cap and without the 50..200 Mbps clamp
ThroughputUnclamped(packet_delta, byte_delta, elapsed, current_time, jitter) ==
    IF packet_delta > 10
    THEN Mbps100(byte_delta, elapsed)
    ELSE 10000 + Wave(50, 1, current_time) + Wave(25, 3, current_time) + jitter

\* the throughput get_network_load computes: from the byte delta, capped at
\* 950 Mbps, when more than 10 packets were counted since the last call;
\* else the simulated wave, clamped to 50..200 Mbps
Throughput(packet_delta, byte_delta, elapsed, current_time, jitter) ==
    IF packet_delta > 10
    THEN Min(Mbps100(byte_delta, elapsed), 95000)
    ELSE Max(5000, Min(10000 + Wave(50, 1, current_time)
                             + Wave(25, 3, current_time) + jitter, 20000))

\* the flow entries with a nonzero packet count in the snapshots of the
\* switches `dpids`
RECURSIVE ActiveEntries(_, _)
ActiveEntries(stats, dpids) ==
    IF dpids = {} THEN 0
    ELSE LET d == CHOOSE x \in dpids : TRUE
         IN  Len(SelectSeq(stats[d], LAMBDA f : Get(f, "packet_count", 0) > 0))
             + ActiveEntries(stats, dpids \ {d})

\* the MAC-table entries of the switches `dpids`
RECURSIVE LearnedEntries(_, _)
LearnedEntries(table, dpids) ==
    IF dpids = {} THEN 0
    ELSE LET d == CHOOSE x \in dpids : TRUE
         IN  Cardinality(DOMAIN table[d]) + LearnedEntries(table, dpids \ {d})

\* an active-flow count without the random replacement of small counts
ActiveFlowsRaw(randint) ==
    LET counted == ActiveEntries(flows, DOMAIN flows)
    IN  IF counted = 0
        THEN LearnedEntries(mac_to_port, DOMAIN mac_to_port)
        ELSE counted

\* the active-flow count of get_network_load: the flow entries with a
\* nonzero packet count; the MAC-table entries when there is none; and
\* random.randint(5, 12) when the count so far is below 3
ActiveFlows(randint) ==
    LET counted == ActiveEntries(flows, DOMAIN flows)
        active_flows == IF counted = 0
                        THEN LearnedEntries(mac_to_port, DOMAIN mac_to_port)
                        ELSE counted
    IN  IF active_flows < 3 THEN randint ELSE active_flows

\* a Load Estimator that does not store the packet counter it has read
get_network_load_keeps_last(jitter, randint) ==
    LET current_time == now
        elapsed == Max(current_time - last_stats_time, 1)
        packet_delta == packet_count - last_packet_count
        byte_delta == byte_count - last_byte_count
    IN  /\ ver = 2
        /\ last_packet_count' = last_packet_count
        /\ last_byte_count' = byte_count
        /\ last_stats_time' = current_time
        /\ sent' = <<>>
        /\ ev' = [op |-> "get_network_load", packet_delta |-> packet_delta,
                   byte_delta |-> byte_delta, elapsed |-> elapsed,
                   ret |-> [throughput |-> Throughput(packet_delta, byte_delta,
                                             elapsed, current_time, jitter),
                            activeFlows |-> ActiveFlows(randint)]]
        /\ UNCHANGED <<ver, conversations, statsVars, threadVars, registryVars, macVars, storeVars, packet_count,
                       byte_count, now>>

\* get_network_load (v2), throughput and active flows: elapsed is at least
\* 1 s; the counters and the time of this call become the "last" ones
get_network_load(jitter, randint) ==
    LET current_time == now
        elapsed == Max(current_time - last_stats_time, 1)
        packet_delta == packet_count - last_packet_count
        byte_delta == byte_count - last_byte_count
    IN  /\ ver = 2
        /\ last_packet_count' = packet_count
        /\ last_byte_count' = byte_count
        /\ last_stats_time' = current_time
        /\ sent' = <<>>
        /\ ev' = [op |-> "get_network_load", packet_delta |-> packet_delta,
                   byte_delta |-> byte_delta, elapsed |-> elapsed,
                   ret |-> [throughput |-> Throughput(packet_delta, byte_delta,
                                             elapsed, current_time, jitter),
                            activeFlows |-> ActiveFlows(randint)]]
        /\ UNCHANGED <<ver, conversations, statsVars, threadVars, registryVars, macVars, storeVars, packet_count,
                       byte_count, now>>


\* ------------------------------------------- calls into the compiler (v1)
\* protocol selectors, as an intent parser or a caller may write them:
\* "TCP/443", "UDP/10000-20000", "tcp/80", "UDP/5060", "ICMP", "TCP/http",
\* "SCTP/9", "UDP/1000-", "TCP/8000-8080"
UDP_10000_20000 ==
    <<"U", "D", "P", "/", "1", "0", "0", "0", "0", "-", "2", "0", "0", "0", "0">>
TCP_80_LOWER == <<"t", "c", "p", "/", "8", "0">>
UDP_5060 == <<"U", "D", "P", "/", "5", "0", "6", "0">>
ICMP == <<"I", "C", "M", "P">>
TCP_HTTP == <<"T", "C", "P", "/", "h", "t", "t", "p">>
SCTP_9 == <<"S", "C", "T", "P", "/", "9">>
UDP_1000_OPEN == <<"U", "D", "P", "/", "1", "0", "0", "0", "-">>
TCP_8000_8080 == <<"T", "C", "P", "/", "8", "0", "0", "0", "-", "8", "0", "8", "0">>

SELECTORS == {TCP_443, UDP_10000_20000, TCP_80_LOWER, UDP_5060, ICMP, TCP_HTTP,
              SCTP_9, UDP_1000_OPEN, TCP_8000_8080}

\* priorities a caller passes to _install_protocol_rule
PRIORITIES == {100, 70}

\* intents handed to _apply_intent: policy, priority and the selector list
\* `protocols`, as add_intent_natural_language builds them from a parse
COMPILER_INTENTS ==
    { [name |-> "HTTPS", policy |-> "QoS Priority", priority |-> 100,
       protocols |-> <<TCP_443>>],
      [name |-> "VoIP", policy |-> "QoS Priority", priority |-> 90,
       protocols |-> <<UDP_5060, UDP_10000_20000>>],
      [name |-> "Video", policy |-> "Traffic Shaping", priority |-> 70,
       bandwidth |-> "50 Mbps", protocols |-> <<UDP_10000_20000>>],
      [name |-> "Web", policy |-> "Load Balance", priority |-> 50,
       protocols |-> <<TCP_443>>],
      [name |-> "QoS", policy |-> "QoS Priority", priority |-> 100],
      [name |-> "Bad", policy |-> "QoS Priority", priority |-> 100,
       protocols |-> <<TCP_443, TCP_HTTP>>],
      [policy |-> "Load Balance", priority |-> 50, protocols |-> <<TCP_443>>] }

\* a call of _apply_intent(intent); the messages sent before an exception
\* stay sent
ApplyIntentCall(intent) ==
    LET r == _apply_intent(intent)
    IN  /\ ver = 1
        /\ sent' = r.msgs
        /\ ev' = [op |-> "_apply_intent", intent |-> intent,
                   raised |-> r.raised, switches |-> Len(datapaths)]
        /\ UNCHANGED <<ver, conversations, statsVars, threadVars, registryVars, macVars, storeVars, loadVars, now>>

\* a call of _install_protocol_rule(datapath, protocol, priority) for a
\* registered switch
InstallProtocolRuleCall(dpid, protocol, priority) ==
    LET r == _install_protocol_rule(dpid, protocol, priority)
    IN  /\ ver = 1
        /\ dpid \in Range(datapaths)
        /\ sent' = r.msgs
        /\ ev' = [op |-> "_install_protocol_rule", dpid |-> dpid,
                   protocol |-> protocol, priority |-> priority,
                   raised |-> r.raised]
        /\ UNCHANGED <<ver, conversations, statsVars, threadVars, registryVars, macVars, storeVars, loadVars, now>>

\* ------------------------------------------------------ specifications
\* the state after construction of controller v, at clock reading t
Construct(v, t) ==
    /\ ver = v
    /\ datapaths = <<>>
    /\ connection = EmptyDict
    /\ mac_to_port = EmptyDict
    /\ intents = <<>>
    /\ next_intent_id = 1
    /\ packet_count = 0
    /\ byte_count = 0
    /\ last_packet_count = 0
    /\ last_byte_count = 0
    /\ now = t
    /\ last_stats_time = t
    /\ flows = EmptyDict
    /\ port_stats = EmptyDict
    /\ monitor = [pc |-> IF v = 1 THEN "sleep" ELSE "none", i |-> 0, n |-> 0]
    /\ applying = [pc |-> "idle"]
    /\ listed = [live |-> FALSE, value |-> <<>>]
    /\ assigned = <<>>
    /\ conversations = EmptyDict
    /\ sent = <<>>
    /\ ev = [op |-> "init"]

Init == \E v \in {1, 2}, t \in START_TIMES : Construct(v, t)

\* the first connection of a switch
SwitchFeatures == \E dpid \in DPIDS : switch_features_handler(dpid, 1)

\* a switch that connects, and connects again over a new connection
CONNECTIONS == {1, 2}

SwitchConnects ==
    \E dpid \in DPIDS, datapath \in CONNECTIONS :
        switch_features_handler(dpid, datapath)

PacketIn ==
    \E dpid \in DPIDS, in_port \in PORTS, src \in MACS, dst \in MACS,
       buffer_id \in BUFFER_IDS, kind \in KINDS :
        packet_in_handler(dpid, in_port, src, dst, buffer_id, kind)

PacketInV2 ==
    \E dpid \in DPIDS, in_port \in PORTS, src \in MACS, dst \in MACS,
       buffer_id \in BUFFER_IDS, len \in LENS :
        packet_in_handler_v2(dpid, in_port, src, dst, buffer_id, len)

AddIntent == \E intent_data \in INTENT_DATA : add_intent(intent_data)

AddIntentNaturalLanguage == add_intent_natural_language

RemoveIntent == \E intent_id \in INTENT_IDS : remove_intent(intent_id)

Chat == \E parsed_response \in LLM_REPLIES : chat("msg", parsed_response)

DeleteIntent == \E intent_id \in INTENT_IDS : delete_intent(intent_id)

DeleteAllIntents == delete_all_intents

GetNetworkLoad == \E jitter \in JITTERS : get_network_load(jitter, 5)

ApplyIntent == \E intent \in COMPILER_INTENTS : ApplyIntentCall(intent)

InstallProtocolRule ==
    \E dpid \in DPIDS, protocol \in SELECTORS, priority \in PRIORITIES :
        InstallProtocolRuleCall(dpid, protocol, priority)

Monitor == _monitor

GetIntents == get_intents

GetIntentsV1 == get_intents_v1

CallerModifies == caller_modifies

\* the switches that answer stats requests
STATS_DPIDS == {1, 2}

FlowStatsReply ==
    \E dpid \in STATS_DPIDS, body \in FLOW_BODIES :
        flow_stats_reply_handler(dpid, body)

PortStatsReply ==
    \E dpid \in STATS_DPIDS, body \in PORT_BODIES :
        port_stats_reply_handler(dpid, body)

\* random.randint(5, 12)
RANDINTS == 5..12

\* flow-stats replies with zero, one and two counted entries
COUNTED_BODIES == {<<FLOW_STATS_IDLE>>, <<FLOW_STATS_BUSY>>,
                   <<FLOW_STATS_BUSY, FLOW_STATS_IDLE, FLOW_STATS_BUSY>>}

FlowStatsCounted ==
    \E dpid \in STATS_DPIDS, body \in COUNTED_BODIES :
        flow_stats_reply_handler(dpid, body)

GetActiveFlows == \E randint \in RANDINTS : get_network_load(0, randint)

PacketInV2Learn ==
    \E dpid \in PACKET_DPIDS, src \in MACS, len \in LENS :
        packet_in_handler_v2(dpid, 1, src, NEAREST_BRIDGE, OFP_NO_BUFFER, len)

PRIORITIZE_REPLIES ==
    {[action |-> "apply", intent |-> i] :
        i \in {[name |-> "Video", policy |-> "qos", priority |-> 85,
                protocol |-> "udp", action |-> "prioritize"],
               [policy |-> "QoS Priority", protocol |-> "TCP/443"]}}

ApplyIntentBegin ==
    \E parsed_response \in PRIORITIZE_REPLIES :
        apply_intent_begin("msg", parsed_response)

ApplyIntentResume == apply_intent_resume

\* packet-in events whose flow-mod cannot be sent
PacketInSendRaises ==
    \E dpid \in PACKET_DPIDS, in_port \in PORTS, src \in MACS, dst \in MACS,
       buffer_id \in BUFFERS :
        packet_in_handler_send_raises(dpid, in_port, src, dst, buffer_id, "ipv4")

\* the users that talk to the assistant, and the replies of the LLM as
\* _parse_llm_response returns them
USERS == {"alice", "anonymous"}
CHAT_REPLIES ==
    {[action |-> "info", response |-> "ok"],
     [action |-> "propose", response |-> "Should I proceed?"]}

ProcessMessage ==
    \E user_id \in USERS, response \in CHAT_REPLIES :
        process_message(user_id, "msg", response)

PacketInV2SendRaises ==
    \E dpid \in PACKET_DPIDS, in_port \in PORTS, src \in MACS, dst \in MACS,
       buffer_id \in BUFFERS, len \in LENS :
        packet_in_handler_v2_send_raises(dpid, in_port, src, dst, buffer_id, len)

Next ==
    \/ SwitchFeatures
    \/ SwitchConnects
    \/ PacketIn
    \/ PacketInV2
    \/ Tick
    \/ AddIntent
    \/ AddIntentNaturalLanguage
    \/ RemoveIntent
    \/ Chat
    \/ DeleteIntent
    \/ DeleteAllIntents
    \/ GetNetworkLoad
    \/ ApplyIntent
    \/ InstallProtocolRule
    \/ Monitor
    \/ GetIntents
    \/ ApplyIntentBegin
    \/ ApplyIntentResume
    \/ PacketInSendRaises
    \/ PacketInV2SendRaises
    \/ FlowStatsReply
    \/ PortStatsReply
    \/ ProcessMessage

Spec == Init /\ [][Next]_vars

\* The Intent Store with the Switch Registry: the API-side operations of both
\* programs and the switch-connect event.
InitStore == \E v \in {1, 2} : Construct(v, 0)

NextStore ==
    \/ SwitchFeatures
    \/ AddIntent
    \/ AddIntentNaturalLanguage
    \/ RemoveIntent
    \/ Chat
    \/ DeleteIntent
    \/ DeleteAllIntents

SpecStore == InitStore /\ [][NextStore]_vars

\* The packet path: the packet-in events of both programs, at two switches.
\* LLDP frames go to the LLDP multicast address, which is no host.
PacketInIp ==
    \E dpid \in PACKET_DPIDS, in_port \in PORTS, src \in MACS, dst \in MACS,
       buffer_id \in BUFFERS :
        packet_in_handler(dpid, in_port, src, dst, buffer_id, "ipv4")

PacketInLldp ==
    \E dpid \in PACKET_DPIDS, in_port \in PORTS, src \in MACS,
       buffer_id \in BUFFERS :
        packet_in_handler(dpid, in_port, src, NEAREST_BRIDGE, buffer_id, "lldp")

PacketInV2Hosts ==
    \E dpid \in PACKET_DPIDS, in_port \in PORTS, src \in MACS, dst \in MACS,
       buffer_id \in BUFFERS, len \in LENS :
        packet_in_handler_v2(dpid, in_port, src, dst, buffer_id, len)

InitPacket == \E v \in {1, 2} : Construct(v, 0)

NextPacket ==
    \/ PacketInIp
    \/ PacketInLldp
    \/ PacketInV2Hosts

SpecPacket == InitPacket /\ [][NextPacket]_vars

\* Priority resolution (v1): the Intent Store operations with the packet-in
\* events of one switch port, for every ethertype class.
RESOLVE_DATA ==
    { [policy |-> "QoS Priority"],
      [name |-> "lb", policy |-> "Load Balance", priority |-> 95],
      [name |-> "mine", policy |-> "custom", priority |-> 30] }

AddIntentPolicy == \E intent_data \in RESOLVE_DATA : add_intent(intent_data)

PacketInKinds ==
    \E src \in MACS, dst \in MACS, kind \in KINDS :
        packet_in_handler(1, 1, src, dst, OFP_NO_BUFFER, kind)

InitResolve == Construct(1, 0)

NextResolve ==
    \/ AddIntentPolicy
    \/ RemoveIntent
    \/ PacketInKinds

SpecResolve == InitResolve /\ [][NextResolve]_vars

\* The Flow Rule Compiler (v1): switches register, and _apply_intent and
\* _install_protocol_rule are called with the intents and selectors above.
InitCompiler == Construct(1, 0)

NextCompiler ==
    \/ SwitchFeatures
    \/ ApplyIntent
    \/ InstallProtocolRule

SpecCompiler == InitCompiler /\ [][NextCompiler]_vars

\* The Load Estimator (v2): get_network_load is called while the clock runs
\* and packets of one flow are counted; observation starts at any of the
\* start counts, no load having been computed yet.
InitLoad ==
    /\ ver = 2
    /\ datapaths = <<>>
    /\ connection = EmptyDict
    /\ mac_to_port = EmptyDict
    /\ intents = <<>>
    /\ next_intent_id = 1
    /\ packet_count \in PKT_START
    /\ byte_count \in (IF packet_count = 0 THEN {0} ELSE BYTE_START)
    /\ last_packet_count = 0
    /\ last_byte_count = 0
    /\ now \in START_TIMES
    /\ last_stats_time = now
    /\ flows = EmptyDict
    /\ port_stats = EmptyDict
    /\ monitor = [pc |-> "none", i |-> 0, n |-> 0]
    /\ applying = [pc |-> "idle"]
    /\ listed = [live |-> FALSE, value |-> <<>>]
    /\ assigned = <<>>
    /\ conversations = EmptyDict
    /\ sent = <<>>
    /\ ev = [op |-> "init"]

PacketInV2Flow ==
    \E len \in LENS : packet_in_handler_v2(1, 1, 1, 2, OFP_NO_BUFFER, len)

NextLoad ==
    \/ GetNetworkLoad
    \/ Tick
    \/ PacketInV2Flow

SpecLoad == InitLoad /\ [][NextLoad]_vars

\* The Poller with the Switch Registry: switches connect, the poller thread
\* of v1 runs whenever it can (it is never starved: every handler returns),
\* the clock runs and the v2 controller counts the packets of one flow.
\* switches that connect and reconnect while intents are applied
InitConnect == \E v \in {1, 2} : Construct(v, 0)

NextConnect ==
    \/ SwitchConnects
    \/ AddIntent
    \/ ApplyIntentBegin
    \/ ApplyIntentResume

SpecConnect == InitConnect /\ [][NextConnect]_vars

\* stats replies between connects, packet-ins and applies
InitStats == \E v \in {1, 2} : Construct(v, 0)

Switch1Connects == switch_features_handler(1, 1)

PacketInV1Flow == packet_in_handler(1, 1, 1, 2, OFP_NO_BUFFER, "ipv4")

AddIntentDefault == add_intent(EmptyDict)

ChatApplyVideo ==
    chat("msg", [action |-> "apply",
                 intent |-> [name |-> "Video", policy |-> "qos",
                             priority |-> 85, protocol |-> "udp",
                             action |-> "prioritize"]])
\* The rule of the packet-in path: both programs with a store that holds
\* intents, and packet-in events of every known and unknown destination.
InitInstall == \E v \in {1, 2} : Construct(v, 0)

NextInstall ==
    \/ AddIntentPolicy
    \/ RemoveIntent
    \/ ChatApplyVideo
    \/ PacketInKinds
    \/ PacketInV2Hosts

SpecInstall == InitInstall /\ [][NextInstall]_vars

NextStats ==
    \/ FlowStatsReply
    \/ PortStatsReply
    \/ Switch1Connects
    \/ PacketInV1Flow
    \/ PacketInV2Flow
    \/ AddIntentDefault
    \/ ChatApplyVideo

SpecStats == InitStats /\ [][NextStats]_vars

\* deletes in a controller that has a switch, learned addresses, a stats
\* snapshot and applied intents
InitDelete == \E v \in {1, 2} : Construct(v, 0)

NextDelete ==
    \/ Switch1Connects
    \/ PacketInV1Flow
    \/ PacketInV2Flow
    \/ FlowStatsReply
    \/ AddIntentDefault
    \/ ChatApplyVideo
    \/ RemoveIntent
    \/ DeleteIntent
    \/ DeleteAllIntents

SpecDelete == InitDelete /\ [][NextDelete]_vars

\* the active-flow count of the Load Estimator (v2)
InitFlows == Construct(2, 0)

NextFlows ==
    \/ FlowStatsCounted
    \/ PacketInV2Learn
    \/ GetActiveFlows

SpecFlows == InitFlows /\ [][NextFlows]_vars

\* stats rounds of the packet-in path (v2): one switch is registered, the
\* clock runs, packets come in and get_network_load is called or not
InitRounds == Construct(2, 0)

NextRounds ==
    \/ Switch1Connects
    \/ Tick
    \/ PacketInV2Flow
    \/ GetNetworkLoad

SpecRounds == InitRounds /\ [][NextRounds]_vars

\* readers of the Intent Store between applies and deletes
NextRead ==
    \/ AddIntentPolicy
    \/ RemoveIntent
    \/ ChatApplyVideo
    \/ DeleteIntent
    \/ DeleteAllIntents
    \/ GetIntents
    \/ GetIntentsV1
    \/ CallerModifies

SpecRead == InitStore /\ [][NextRead]_vars

\* two chat requests in the apply step at the same time (v2): one is blocked
\* in send_msg inside apply_intent while the other runs
InitOverlap == Construct(2, 0)

NextOverlap ==
    \/ Switch1Connects
    \/ ApplyIntentBegin
    \/ ApplyIntentResume
    \/ Chat

SpecOverlap == InitOverlap /\ [][NextOverlap]_vars

\* the packet path of the v1 program at one switch, for every buffer
\* reference a switch may send
PacketInBuffered ==
    \E in_port \in PORTS, src \in MACS, dst \in MACS,
       buffer_id \in BUFFER_IDS, kind \in KINDS :
        packet_in_handler(1, in_port, src, dst, buffer_id, kind)

InitBuffer == Construct(1, 0)

NextBuffer == PacketInBuffered

SpecBuffer == InitBuffer /\ [][NextBuffer]_vars

\* --------------------------------------------------------- conversations
InitChat == Construct(2, 0)

NextChat == Tick \/ ProcessMessage

SpecChat == InitChat /\ [][NextChat]_vars

\* ------------------------------------------- priorities of installed rules
\* a request whose text and context the parser turned into any of the
\* configurations _generate_policy can produce
AddIntentParsed ==
    \E category \in CATEGORIES, urgency \in URGENCIES,
       user_role \in USER_ROLES, time_modifier \in TIME_MODIFIERS :
        add_intent_natural_language_parsed(
            _generate_policy(category, urgency, user_role, time_modifier))

InitPriority == Construct(1, 0)

NextPriority ==
    \/ Switch1Connects
    \/ AddIntentParsed
    \/ AddIntentPolicy
    \/ PacketInKinds

SpecPriority == InitPriority /\ [][NextPriority]_vars

\* the packet path when the flow-mod of an event cannot be sent
NextSend ==
    \/ PacketInIp
    \/ PacketInV2Hosts
    \/ PacketInSendRaises
    \/ PacketInV2SendRaises

SpecSend == InitPacket /\ [][NextSend]_vars

\* the v2 Intent Store with an apply that can be switched out
InitAtomic == Construct(2, 0)

NextAtomic ==
    \/ SwitchFeatures
    \/ ApplyIntentBegin
    \/ ApplyIntentResume
    \/ DeleteIntent
    \/ DeleteAllIntents
    \/ GetIntents

SpecAtomic == InitAtomic /\ [][NextAtomic]_vars

InitPoll == \E v \in {1, 2} : Construct(v, 0)

NextPoll ==
    \/ SwitchFeatures
    \/ Monitor
    \/ Tick
    \/ PacketInV2Flow

SpecPoll == InitPoll /\ [][NextPoll]_vars /\ WF_vars(Monitor)

\* --------------------------------------------------------- properties
\* the flow-mods and the packet-outs of the handler that ran last
FlowMods == SelectSeq(sent, IsFlowMod)
PacketOuts == SelectSeq(sent, IsPacketOut)

\* the port the dispatcher finds for the destination of the last packet-in
LastOutPort == Lookup(mac_to_port, ev.dpid, ev.dst)

C2_StrictlyIncreasingIds ==
    \A i \in DOMAIN assigned : \A j \in DOMAIN assigned :
        i < j => assigned[i] < assigned[j]

\* the v1 store gives an id that is not greater than an id given earlier
C2_IdNotGreater ==
    /\ ev.op = "add_intent"
    /\ \E i \in 1..(Len(assigned) - 1) : assigned[i] >= ev.id

\* C3 (as stated): no two stored intents have the same id, and no id is
\* assigned a second time.
C3_UniqueIdsNeverReused ==
    /\ \A i \in DOMAIN intents : \A j \in DOMAIN intents :
          i # j => intents[i].id # intents[j].id
    /\ Cardinality(Range(assigned)) = Len(assigned)

\* the v1 store holds two intents with the same id
C3_TwoStoredWithSameId ==
    \E i \in DOMAIN intents : \E j \in DOMAIN intents :
        i # j /\ intents[i].id = intents[j].id

\* the active intents of the store, in insertion order
ActiveIntents == SelectSeq(intents, IsActive)

\* C4 (as stated): the priority resolved for a packet is the priority of
\* the first active intent in insertion order whenever there is an active
\* intent, and 1 only when there is none.  (The resolved priority is the
\* priority of the flow-mod the dispatcher installs.)
C4_FirstActiveOrFloor ==
    (ev.op = "packet_in" /\ FlowMods # <<>>) =>
        FlowMods[1].priority =
            (IF ActiveIntents # <<>> THEN ActiveIntents[1].priority ELSE 1)

\* C4 (amended): for a packet with an IPv4 header the resolved priority is
\* the priority of the first active intent in insertion order, 1 when there
\* is no active intent; for a packet without an IPv4 header it is 1 whatever
\* the store holds.
C4_FirstActiveForIpv4 ==
    (ev.op = "packet_in" /\ FlowMods # <<>>) =>
        FlowMods[1].priority =
            (IF ev.kind = "ipv4" /\ ActiveIntents # <<>>
             THEN ActiveIntents[1].priority ELSE 1)

\* an IPv4 packet resolved while the first active intent has a lower
\* priority than a later one: the first wins, not the maximum
C4_FirstWinsNotMaximum ==
    /\ ev.op = "packet_in"
    /\ ev.kind = "ipv4"
    /\ FlowMods # <<>>
    /\ Len(ActiveIntents) >= 2
    /\ ActiveIntents[1].priority < ActiveIntents[2].priority
    /\ FlowMods[1].priority = ActiveIntents[1].priority

\* C5 (as stated): applying an intent with policy "QoS Priority" and the one
\* selector "TCP/443" issues exactly one flow-mod per registered switch (two
\* on two switches, N on N), all with the same match and priority.
C5_OneRulePerSwitch ==
    (/\ ev.op = "_apply_intent"
     /\ ev.intent.policy = "QoS Priority"
     /\ Get(ev.intent, "protocols", <<>>) = <<TCP_443>>) =>
        /\ Len(FlowMods) = Len(datapaths)
        /\ \A i \in DOMAIN FlowMods :
              /\ FlowMods[i].priority = ev.intent.priority
              /\ FlowMods[i].match = FlowMods[1].match

\* _apply_intent on two switches for "QoS Priority" with "TCP/443": six
\* flow-mods, three per switch
C5_ThreeRulesPerSwitch ==
    /\ ev.op = "_apply_intent"
    /\ ev.intent.policy = "QoS Priority"
    /\ Get(ev.intent, "protocols", <<>>) = <<TCP_443>>
    /\ Len(datapaths) = 2
    /\ Len(FlowMods) = 6

\* C6 (as stated): a delete of an id that is not in the store returns false
\* and leaves the store as it was.
C6_FailedDeleteReturnsFalse ==
    (/\ ev.op \in {"remove_intent", "delete_intent"}
     /\ ev.id \notin Ids(ev.before)) =>
        /\ ev.ret = "False"
        /\ intents = ev.before

\* remove_intent of the v1 controller for an id that is not stored: the store
\* is unchanged and nothing is returned
C6_RemoveReturnsNothing ==
    /\ ev.op = "remove_intent"
    /\ ev.id \notin Ids(ev.before)
    /\ ev.ret = "None"
    /\ intents = ev.before

\* the packet-in that ran last went through the learning step
Learned(e) == e.op = "packet_in" /\ ~(ver = 1 /\ e.kind = "lldp")

\* C7: after the learning step of a packet-in for (switch, source MAC) at
\* in_port, lookup(switch, MAC) is in_port; no other step changes
\* lookup(switch, MAC): not a learning step for another MAC or at another
\* switch, and not a packet-in that skips the learning step.
C7_ObserveThenLookup ==
    [][\A d \in PACKET_DPIDS : \A m \in MACS :
          IF Learned(ev') /\ ev'.dpid = d /\ ev'.src = m
          THEN Lookup(mac_to_port', d, m) = ev'.in_port
          ELSE Lookup(mac_to_port', d, m) = Lookup(mac_to_port, d, m)]_vars

\* MAC 1 was learned at port 2 of switch 1 and at port 1 of switch 2, and
\* the last packet-in learned another MAC at switch 1
C7_OtherMacObserved ==
    /\ Learned(ev)
    /\ ev.dpid = 1
    /\ ev.src # 1
    /\ Lookup(mac_to_port, 1, 1) = 2
    /\ Lookup(mac_to_port, 2, 1) = 1

\* C8: _install_protocol_rule for a range selector PROTO/start-end sends
\* exactly one flow-mod: match (IPv4, protocol number of PROTO, destination
\* port = start), output NORMAL, the given priority.
C8_RangeKeepsStartPort ==
    (ev.op = "_install_protocol_rule"
     /\ ev.protocol \in {UDP_10000_20000, TCP_8000_8080}) =>
        /\ ~ev.raised
        /\ sent = << [type |-> "OFPFlowMod", dpid |-> ev.dpid,
                      buffer_id |-> OFP_NO_BUFFER, priority |-> ev.priority,
                      match |-> IF ev.protocol = UDP_10000_20000
                                THEN [eth_type |-> 2048, ip_proto |-> 17,
                                      udp_dst |-> 10000]
                                ELSE [eth_type |-> 2048, ip_proto |-> 6,
                                      tcp_dst |-> 8000],
                      actions |-> <<[output |-> OFPP_NORMAL]>>,
                      idle_timeout |-> 0, hard_timeout |-> 0] >>

\* "UDP/10000-20000" was compiled to one flow-mod for UDP port 10000
C8_UdpRangeCompiled ==
    /\ ev.op = "_install_protocol_rule"
    /\ ev.protocol = UDP_10000_20000
    /\ Len(sent) = 1
    /\ sent[1].match = [eth_type |-> 2048, ip_proto |-> 17, udp_dst |-> 10000]

\* the record the last apply stored: add_intent returns it, chat stores it
\* under the id it drew
StoredByLastApply ==
    IF ev.op = "add_intent" THEN ev.ret
    ELSE intents[CHOOSE i \in DOMAIN intents : intents[i].id = ev.id]

\* the request the last apply was given
AppliedSpec == IF ev.op = "add_intent" THEN ev.data ELSE ev.intent

Applied ==
    \/ ev.op = "add_intent"
    \/ ev.op = "chat" /\ ev.ret = "applied"

\* the policy of a request (add_intent reads a missing policy as
\* "QoS Priority", apply_intent as "custom")
AppliedPolicy ==
    Get(AppliedSpec, "policy",
        IF ev.op = "add_intent" THEN "QoS Priority" ELSE "custom")

\* C9 (as stated): an apply stores the intent with status active and with
\* priority max(explicit priority, policy default) when the request has a
\* priority and the policy has a default, the policy default when only that
\* exists, and 50 otherwise.
C9_PriorityIsMaxOfExplicitAndDefault ==
    Applied =>
        /\ StoredByLastApply.status = "active"
        /\ StoredByLastApply.priority =
              (IF AppliedPolicy \in DOMAIN intent_policies
               THEN IF "priority" \in DOMAIN AppliedSpec
                    THEN Max(AppliedSpec.priority, intent_policies[AppliedPolicy])
                    ELSE intent_policies[AppliedPolicy]
               ELSE 50)

\* C9 (amended): an apply stores the intent with status active.  add_intent
\* (v1) stores the default priority of the policy, 50 for a policy without a
\* default, and does not read a priority in the request.  apply_intent (v2)
\* stores the priority of the request, 50 when the request has none, and
\* knows no policy defaults.
C9_StoredPriority ==
    Applied =>
        /\ StoredByLastApply.status = "active"
        /\ StoredByLastApply.priority =
              (IF ev.op = "add_intent"
               THEN IF AppliedPolicy \in DOMAIN intent_policies
                    THEN intent_policies[AppliedPolicy] ELSE 50
               ELSE IF "priority" \in DOMAIN AppliedSpec
                    THEN AppliedSpec.priority ELSE 50)

\* add_intent was given priority 95 for "Load Balance" (default 50) and
\* stored 50
C9_ExplicitPriorityNotRead ==
    /\ ev.op = "add_intent"
    /\ "priority" \in DOMAIN ev.data
    /\ ev.data.priority = 95
    /\ ev.data.policy = "Load Balance"
    /\ ev.ret.priority = 50
    /\ ev.ret.status = "active"

\* C10: get_network_load returns a throughput within 50..200 Mbps when at
\* most 10 packets were counted since the previous call and a throughput of
\* at most 950 Mbps when more were counted; the elapsed time it divides by
\* is at least 1 s.  (Throughputs are in hundredths of a Mbps.)
C10_ThroughputBounds ==
    ev.op = "get_network_load" =>
        /\ ev.elapsed >= 1
        /\ ev.packet_delta <= 10 =>
              ev.ret.throughput >= 5000 /\ ev.ret.throughput <= 20000
        /\ ev.packet_delta > 10 => ev.ret.throughput <= 95000

\* more than 10 packets with a byte delta above 950 Mbps: the result is the
\* cap
C10_CapReached ==
    /\ ev.op = "get_network_load"
    /\ ev.packet_delta > 10
    /\ Mbps100(ev.byte_delta, ev.elapsed) > 95000
    /\ ev.ret.throughput = 95000

\* switch d is sent a flow-stats request and a port-stats request by the
\* handler that ran last
Polled(d) ==
    /\ \E i \in DOMAIN sent : sent[i] = OFPFlowStatsRequest(d)
    /\ \E i \in DOMAIN sent : sent[i] = OFPPortStatsRequest(d)

\* C11 (as stated): in every run in which no packet-in event ever arrives,
\* a switch that has registered is sent a flow-stats request and a
\* port-stats request again and again.
C11_PolledWithoutTraffic ==
    \A d \in DPIDS :
        ([](ev.op # "packet_in") /\ <>(d \in Range(datapaths)))
            => []<>Polled(d)

\* the v2 controller has registered a switch, and the clock has run to its
\* end without a packet-in: nothing is sent to the switch
C11_RegisteredNotPolled ==
    /\ ver = 2
    /\ datapaths # <<>>
    /\ packet_count = 0
    /\ ev.op = "tick"
    /\ now = MaxTime
    /\ sent = <<>>

\* C12 (as stated): the poller thread never ends, whatever switch-connect
\* events arrive while it is in a round.
C12_PollerNeverEnds == monitor.pc # "dead"

\* a switch registered while the poller was in a round over the registry:
\* the poller thread has ended with two switches registered
C12_PollerEndedByConnect ==
    /\ monitor.pc = "dead"
    /\ ev.op = "_monitor"
    /\ ev.raised
    /\ Len(datapaths) = 2

\* C13 (as stated): the Intent Store operations are atomic with respect to
\* each other, so no operation fails because another ran concurrently: an
\* apply of a well-formed intent, which succeeds in every serial order,
\* returns True in every interleaving.
C13_ApplyNotFailedByConcurrentDelete ==
    (ev.op = "apply_intent" /\ ev.ret # "pending") => ev.ret = "True"

C13_ApplyFailedByDelete ==
    /\ ev.op = "apply_intent"
    /\ ev.ret = "False"
    /\ ~ev.raised
    /\ ev.id \notin Ids(intents)
    /\ applying.pc = "idle"

\* C14 (as stated): a selector whose port is not a number does not abort the
\* apply path: the selector is skipped, and the well-formed selectors of the
\* intent are still installed on every registered switch.
C14_MalformedSelectorSkipped ==
    (/\ ev.op = "_apply_intent"
     /\ Get(ev.intent, "protocols", <<>>) = <<TCP_443, TCP_HTTP>>) =>
        /\ ~ev.raised
        /\ \A d \in Range(datapaths) :
              \E i \in DOMAIN FlowMods :
                 /\ FlowMods[i].dpid = d
                 /\ FlowMods[i].match =
                       [eth_type |-> 2048, ip_proto |-> 6, tcp_dst |-> 443]

\* _apply_intent on two switches with the selectors "TCP/443", "TCP/http":
\* int("http") raises, the first switch has the TCP/443 rule only and the
\* second switch has nothing
C14_ApplyAbortedBySelector ==
    /\ ev.op = "_apply_intent"
    /\ Get(ev.intent, "protocols", <<>>) = <<TCP_443, TCP_HTTP>>
    /\ ev.raised
    /\ Len(datapaths) = 2
    /\ Len(sent) = 1
    /\ sent[1].dpid = datapaths[1]

\* C15 (as stated): when the flow-mod of a packet-in for a known destination
\* cannot be sent, the packet-out of that event is still sent, to the learned
\* port.
C15_PacketOutAfterFailedFlowMod ==
    (ev.op = "packet_in" /\ "send_raised" \in DOMAIN ev) =>
        /\ Len(PacketOuts) = 1
        /\ PacketOuts[1].actions = <<OFPActionOutput(LastOutPort)>>

\* a v1 packet-in without a buffer reference for a known destination whose
\* flow-mod could not be sent: no packet-out
C15_NoPacketOutAfterFailedFlowMod ==
    /\ ev.op = "packet_in"
    /\ "send_raised" \in DOMAIN ev
    /\ ver = 1
    /\ ev.buffer_id = OFP_NO_BUFFER
    /\ LastOutPort # OFPP_FLOOD
    /\ PacketOuts = <<>>

\* C16: after every switch-connect event the switch id is in the registry,
\* mapped to the connection of that event, and the event sent exactly one
\* flow-mod: the bootstrap rule (empty match, output to the controller,
\* priority 0).  No flow-mod the controller sends has a lower priority.
C16_ConnectRegistersAndBootstraps ==
    /\ ev.op = "switch_features" =>
          /\ ev.dpid \in Range(datapaths)
          /\ connection[ev.dpid] = ev.datapath
          /\ FlowMods = << [type |-> "OFPFlowMod", dpid |-> ev.dpid,
                            buffer_id |-> OFP_NO_BUFFER, priority |-> 0,
                            match |-> EmptyDict,
                            actions |-> <<[output |-> OFPP_CONTROLLER]>>,
                            idle_timeout |-> 0, hard_timeout |-> 0] >>
    /\ \A i \in DOMAIN FlowMods : FlowMods[i].priority >= 0

\* switch 1 connected over connection 1 earlier and has just connected again
\* over connection 2, while switch 2 stays registered
C16_Reconnected ==
    /\ ev.op = "switch_features"
    /\ ev.dpid = 1
    /\ ev.datapath = 2
    /\ datapaths = <<2, 1>>
    /\ connection[2] = 1
    /\ Len(FlowMods) = 1

\* C17: an intent applied while no switch is registered is stored as active
\* and sends no flow-mod; a switch that connects afterwards is sent the
\* bootstrap rule and nothing else, whatever intents the store holds.
C17_NoReplayOnConnect ==
    /\ (Applied /\ datapaths = <<>>) =>
          /\ FlowMods = <<>>
          /\ StoredByLastApply.status = "active"
          /\ \E i \in DOMAIN intents : intents[i] = StoredByLastApply
    /\ ev.op = "switch_features" =>
          /\ Len(FlowMods) = 1
          /\ FlowMods[1].dpid = ev.dpid
          /\ FlowMods[1].priority = 0
          /\ FlowMods[1].match = EmptyDict

\* the first switch connects while the store holds two active intents, which
\* were applied when the registry was empty
C17_ConnectAfterApply ==
    /\ ev.op = "switch_features"
    /\ ~ev.known
    /\ Len(datapaths) = 1
    /\ Len(ActiveIntents) = 2
    /\ Len(FlowMods) = 1

\* C18 (as stated): an applied intent that compiles to at least one rule (it
\* has a protocol selector, or its policy is "QoS Priority") sends at least
\* one flow-mod to every registered switch, whatever its action field.
C18_RulesPushedToEverySwitch ==
    (/\ Applied
     /\ \/ "protocol" \in DOMAIN AppliedSpec
        \/ AppliedPolicy = "QoS Priority") =>
        \A d \in Range(datapaths) :
           \E i \in DOMAIN FlowMods : FlowMods[i].dpid = d

\* the v2 controller applied an intent with a protocol selector and action
\* "block" while a switch was registered: stored, and no flow-mod sent
C18_BlockIntentSendsNothing ==
    /\ ev.op = "chat"
    /\ ev.ret = "applied"
    /\ "protocol" \in DOMAIN ev.intent
    /\ Get(ev.intent, "action", "prioritize") = "block"
    /\ datapaths # <<>>
    /\ ev.id \in Ids(intents)
    /\ sent = <<>>

\* C19: a flow-stats reply (a port-stats reply) for switch s makes the
\* flow (port) snapshot of s the entries of that reply, in the reply's order,
\* whatever the snapshot held before (an empty reply leaves an empty
\* snapshot), and changes nothing else: not the snapshots of other switches,
\* not the snapshots of the other kind, not the MAC table, the registry or
\* the Intent Store.
C19_ReplyReplacesSnapshot ==
    [][/\ ev'.op = "flow_stats_reply" =>
             /\ DOMAIN flows' = DOMAIN flows \cup {ev'.dpid}
             /\ Len(flows'[ev'.dpid]) = Len(ev'.body)
             /\ \A i \in DOMAIN ev'.body :
                   flows'[ev'.dpid][i] =
                      [packet_count |-> ev'.body[i].packet_count,
                       byte_count |-> ev'.body[i].byte_count,
                       duration |-> ev'.body[i].duration_sec,
                       priority |-> ev'.body[i].priority]
             /\ \A d \in DOMAIN flows \ {ev'.dpid} : flows'[d] = flows[d]
             /\ UNCHANGED <<port_stats, mac_to_port, datapaths, connection,
                            intents, next_intent_id>>
       /\ ev'.op = "port_stats_reply" =>
             /\ DOMAIN port_stats' = DOMAIN port_stats \cup {ev'.dpid}
             /\ Len(port_stats'[ev'.dpid]) = Len(ev'.body)
             /\ \A i \in DOMAIN ev'.body :
                   /\ port_stats'[ev'.dpid][i].port_no = ev'.body[i].port_no
                   /\ port_stats'[ev'.dpid][i].rx_packets = ev'.body[i].rx_packets
                   /\ port_stats'[ev'.dpid][i].tx_errors = ev'.body[i].tx_errors
             /\ \A d \in DOMAIN port_stats \ {ev'.dpid} :
                   port_stats'[d] = port_stats[d]
             /\ UNCHANGED <<flows, mac_to_port, datapaths, connection,
                            intents, next_intent_id>>]_vars

\* an empty flow-stats reply for switch 1 wiped a snapshot of two entries,
\* while switch 2 keeps its snapshot and the MAC table, the registry and the
\* store are not empty
C19_EmptyReplyWipesSnapshot ==
    /\ ev.op = "flow_stats_reply"
    /\ ev.dpid = 1
    /\ ev.body = <<>>
    /\ Len(ev.before) = 2
    /\ flows[1] = <<>>
    /\ 2 \in DOMAIN flows
    /\ Len(flows[2]) = 1
    /\ mac_to_port # EmptyDict
    /\ datapaths # <<>>
    /\ intents # <<>>

\* C20 (as stated): a delete of an id that is in the store returns true;
\* afterwards the id is not in the store, and the other stored intents are
\* unchanged and in the same relative order.
C20_DeleteStoredReturnsTrue ==
    (/\ ev.op \in {"remove_intent", "delete_intent"}
     /\ ev.id \in Ids(ev.before)) =>
        /\ ev.ret = "True"
        /\ ev.id \notin Ids(intents)
        /\ intents = SelectSeq(ev.before, LAMBDA i : i.id # ev.id)

\* remove_intent of the v1 controller for a stored id: the intent is gone,
\* another intent is still stored, and nothing is returned
C20_RemoveStoredReturnsNothing ==
    /\ ev.op = "remove_intent"
    /\ ev.id \in Ids(ev.before)
    /\ ev.ret = "None"
    /\ ev.id \notin Ids(intents)
    /\ intents # <<>>

\* C21: delete_all_intents returns the number of intents the store held
\* just before the call and leaves the store empty; a delete-all that follows
\* a delete-all at once returns 0.
C21_DeleteAllReturnsCount ==
    ev.op = "delete_all_intents" =>
        /\ ev.ret = Len(ev.before)
        /\ ev.ret = Cardinality(Ids(ev.before))
        /\ intents = <<>>
        /\ ev.again => ev.ret = 0

\* a delete-all of a store of two intents returned 2
C21_TwoDeleted ==
    /\ ev.op = "delete_all_intents"
    /\ ~ev.again
    /\ ev.ret = 2
    /\ intents = <<>>

\* C22: the store keeps its intents in apply order (an apply puts the new
\* intent last, a delete keeps the others in their order), and get_intents
\* lists exactly the stored intents, in that order.  (Steps of the store's
\* own operations; what a caller does to a list it was given is C25.)
C22_ListedInInsertionOrder ==
    [][/\ (ev'.op # "caller_modifies" /\ Len(intents') > Len(intents)) =>
             /\ Len(intents') = Len(intents) + 1
             /\ SubSeq(intents', 1, Len(intents)) = intents
       /\ (ev'.op # "caller_modifies" /\ Len(intents') <= Len(intents)) =>
             intents' = SelectSeq(intents, LAMBDA i : i.id \in Ids(intents'))
       /\ ev'.op = "get_intents" =>
             /\ Len(ev'.ret) = Len(intents')
             /\ \A i \in DOMAIN intents' :
                   /\ ev'.ret[i].id = intents'[i].id
                   /\ ev'.ret[i].name = intents'[i].name
                   /\ ev'.ret[i].priority = intents'[i].priority]_vars

\* the v2 store after three applies and a delete of the second intent:
\* get_intents lists the intents 1 and 3, in this order
C22_ListedAfterDelete ==
    /\ ev.op = "get_intents"
    /\ ver = 2
    /\ Len(assigned) = 3
    /\ Len(ev.ret) = 2
    /\ ev.ret[1].id = 1
    /\ ev.ret[2].id = 3

\* C23: _apply_intent for an intent with policy "QoS Priority" and no
\* protocol selector sends, to each registered switch in turn, exactly two
\* flow-mods: (IPv4, TCP, destination port 443) at the intent's priority and
\* (IPv4, UDP, destination port 53) at the priority minus 10, both with
\* output NORMAL.
C23_QosPriorityTwoRules ==
    (/\ ev.op = "_apply_intent"
     /\ ev.intent.policy = "QoS Priority"
     /\ "protocols" \notin DOMAIN ev.intent) =>
        /\ ~ev.raised
        /\ Len(sent) = 2 * Len(datapaths)
        /\ \A k \in DOMAIN datapaths :
              /\ sent[2 * k - 1] =
                    [type |-> "OFPFlowMod", dpid |-> datapaths[k],
                     buffer_id |-> OFP_NO_BUFFER,
                     priority |-> ev.intent.priority,
                     match |-> [eth_type |-> 2048, ip_proto |-> 6,
                                tcp_dst |-> 443],
                     actions |-> <<[output |-> OFPP_NORMAL]>>,
                     idle_timeout |-> 0, hard_timeout |-> 0]
              /\ sent[2 * k] =
                    [type |-> "OFPFlowMod", dpid |-> datapaths[k],
                     buffer_id |-> OFP_NO_BUFFER,
                     priority |-> ev.intent.priority - 10,
                     match |-> [eth_type |-> 2048, ip_proto |-> 17,
                                udp_dst |-> 53],
                     actions |-> <<[output |-> OFPP_NORMAL]>>,
                     idle_timeout |-> 0, hard_timeout |-> 0]

\* the QoS intent without selectors applied on two switches: four flow-mods,
\* the DNS rule of the second switch at priority 90
C23_QosOnTwoSwitches ==
    /\ ev.op = "_apply_intent"
    /\ ev.intent.policy = "QoS Priority"
    /\ "protocols" \notin DOMAIN ev.intent
    /\ Len(datapaths) = 2
    /\ Len(sent) = 4
    /\ sent[4].dpid = datapaths[2]
    /\ sent[4].priority = 90

\* the flow entries with a nonzero packet count in the snapshots of the
\* switches 1 and 2, and the MAC-table entries of the switches 1 and 2
NonzeroFlowEntries ==
    Len(SelectSeq(Get(flows, 1, <<>>), LAMBDA f : f.packet_count # 0))
    + Len(SelectSeq(Get(flows, 2, <<>>), LAMBDA f : f.packet_count # 0))

MacTableEntries ==
    Cardinality(DOMAIN Get(mac_to_port, 1, EmptyDict))
    + Cardinality(DOMAIN Get(mac_to_port, 2, EmptyDict))

\* C24: the active-flow count of get_network_load is the number of flow
\* entries with a nonzero packet count when that is at least 3; the number of
\* MAC-table entries when no flow entry counts and that number is at least 3;
\* a value in 5..12 whenever the number so obtained is below 3; and so never
\* below 3.
C24_ActiveFlowCount ==
    ev.op = "get_network_load" =>
        /\ NonzeroFlowEntries >= 3 => ev.ret.activeFlows = NonzeroFlowEntries
        /\ (NonzeroFlowEntries = 0 /\ MacTableEntries >= 3) =>
              ev.ret.activeFlows = MacTableEntries
        /\ (\/ NonzeroFlowEntries \in {1, 2}
            \/ NonzeroFlowEntries = 0 /\ MacTableEntries < 3) =>
              ev.ret.activeFlows \in 5..12
        /\ ev.ret.activeFlows >= 3

\* no flow entry counts (switch 1 reported an idle entry) and the MAC table
\* holds three entries: the count is 3
C24_FallbackToMacTable ==
    /\ ev.op = "get_network_load"
    /\ 1 \in DOMAIN flows
    /\ flows[1] # <<>>
    /\ NonzeroFlowEntries = 0
    /\ MacTableEntries = 3
    /\ ev.ret.activeFlows = 3

\* C25 (as stated): a caller of get_intents holds a snapshot: the list it was
\* given is not changed by a later apply or delete, and what the caller does
\* to the list does not change the store.
C25_ReadersHoldSnapshots ==
    [][/\ ev'.op \notin {"get_intents", "caller_modifies"} =>
             listed'.value = listed.value
       /\ ev'.op = "caller_modifies" => intents' = intents]_vars

\* the v1 controller: the list a caller was given has grown by the intent of
\* a later add_intent
C25_ListGrewAfterReturn ==
    /\ ver = 1
    /\ ev.op = "add_intent"
    /\ listed.live
    /\ listed.value = intents
    /\ listed.value[Len(listed.value)] = ev.ret

\* C26 (as stated): the rule the packet-in path installs for a known
\* destination matches (input port, destination MAC, source MAC), outputs to
\* the port the MAC table records for the destination, and has the priority
\* resolved from the Intent Store at the time of the event.
C26_InstalledRuleOfPacketIn ==
    (ev.op = "packet_in" /\ FlowMods # <<>>) =>
        /\ FlowMods[1].match =
               [in_port |-> ev.in_port, eth_dst |-> ev.dst, eth_src |-> ev.src]
        /\ FlowMods[1].actions = <<[output |-> mac_to_port[ev.dpid][ev.dst]]>>
        /\ FlowMods[1].priority = _get_intent_priority(ev.kind)

\* the v2 program installs a rule while an active intent of priority 85 is
\* stored: the match has no source MAC and the priority is 1
C26_RuleIgnoresStoreAndSource ==
    /\ ver = 2
    /\ ev.op = "packet_in"
    /\ FlowMods # <<>>
    /\ ActiveIntents # <<>>
    /\ ActiveIntents[1].priority = 85
    /\ FlowMods[1].match = [in_port |-> ev.in_port, eth_dst |-> ev.dst]
    /\ FlowMods[1].priority = 1

\* C27 (as stated): a protocol selector whose protocol name is neither TCP
\* nor UDP is rejected: _install_protocol_rule sends no rule for it.
C27_UnknownProtocolRejected ==
    (/\ ev.op = "_install_protocol_rule"
     /\ Upper(Split(ev.protocol, "/")[1]) \notin
            {<<"T", "C", "P">>, <<"U", "D", "P">>}) =>
        sent = <<>>

\* the selector "SCTP/9" compiled to a rule that matches UDP port 9
C27_SctpInstalledAsUdp ==
    /\ ev.op = "_install_protocol_rule"
    /\ ev.protocol = SCTP_9
    /\ ~ev.raised
    /\ Len(FlowMods) = 1
    /\ FlowMods[1].match = [eth_type |-> 2048, ip_proto |-> 17, udp_dst |-> 9]

\* C28 (as stated): when the conversation returns the action
\* "delete_all_confirmed", the Intent Store is empty once the chat request
\* has completed.
C28_ConfirmedDeleteAllEmptiesStore ==
    (ev.op = "chat" /\ ev.ret = "delete_all_confirmed") => intents = <<>>

\* a chat request answered with "delete_all_confirmed" while intents are
\* stored: the store is what it was before the request
C28_ConfirmedButNothingDeleted ==
    /\ ev.op = "chat"
    /\ ev.ret = "delete_all_confirmed"
    /\ intents # <<>>
    /\ intents = ev.before

\* the packet-in that ran last issued a round of stats requests
RoundIssued(e, msgs) ==
    e.op = "packet_in" /\ SelectSeq(msgs, IsStatsRequest) # <<>>

\* C29 (as stated, for two packet-in events in a row): between two rounds of
\* stats requests issued from the packet-in path at least 3 seconds elapse.
C29_RoundsThreeSecondsApart ==
    [][(RoundIssued(ev, sent) /\ RoundIssued(ev', sent')) =>
           now' - now >= 3]_vars

\* a packet-in issued a round and the time of the last round is still more
\* than 3 seconds back: the next packet-in issues a round again
C29_RoundIssuedTimerNotReset ==
    /\ RoundIssued(ev, sent)
    /\ now - last_stats_time > 3
    /\ packet_count < MaxPackets

\* no step removes an entry of the MAC table, and the host count of the
\* topology does not decrease
EntriesKept ==
    /\ \A d \in DOMAIN mac_to_port :
          /\ d \in DOMAIN mac_to_port'
          /\ DOMAIN mac_to_port[d] \subseteq DOMAIN mac_to_port'[d]
    /\ get_topology'.hosts >= get_topology.hosts

\* C30 (as stated): after every packet-in on a switch with a source MAC the
\* entry for (switch, MAC) is the ingress port of that packet-in, no step
\* removes an entry, and the host count of the topology never decreases.
C30_LastPacketInWins ==
    [][/\ ev'.op = "packet_in" =>
             Lookup(mac_to_port', ev'.dpid, ev'.src) = ev'.in_port
       /\ EntriesKept]_vars

\* C30 (amended): after every packet-in that reaches the learning step (in
\* the v1 program: every frame but an LLDP frame) the entry for (switch,
\* source MAC) is its ingress port; every other step, an LLDP packet-in of v1
\* included, leaves the table as it is; no step removes an entry, and the
\* host count of the topology never decreases.
C30_LastLearnedPacketInWins ==
    [][/\ IF Learned(ev')
          THEN Lookup(mac_to_port', ev'.dpid, ev'.src) = ev'.in_port
          ELSE mac_to_port' = mac_to_port
       /\ EntriesKept]_vars

\* an entry was overwritten by a later packet-in at another port, on a
\* switch that knows both MAC addresses, and the host count stayed 2
C30_EntryOverwritten ==
    /\ Learned(ev)
    /\ ev.dpid = 1
    /\ ev.src = 1
    /\ ev.in_port = 2
    /\ ev.dst = 2
    /\ Lookup(mac_to_port, 1, 1) = 2
    /\ Lookup(mac_to_port, 1, 2) = 2
    /\ Lookup(mac_to_port, 2, 1) = 1
    /\ get_topology.hosts = 2

\* C31 (as stated): a non-LLDP packet-in whose destination is known is
\* forwarded exactly once, for every buffer reference: either the flow-mod
\* carries the buffer reference, or one packet-out is sent, never neither
\* and never both.
C31_KnownDestinationForwardedOnce ==
    (ev.op = "packet_in" /\ ev.kind # "lldp" /\ FlowMods # <<>>) =>
        /\ Len(FlowMods) = 1
        /\ Len(PacketOuts) <= 1
        /\ IF ev.buffer_id # OFP_NO_BUFFER /\ PacketOuts = <<>>
           THEN FlowMods[1].buffer_id = ev.buffer_id
           ELSE /\ FlowMods[1].buffer_id = OFP_NO_BUFFER
                /\ Len(PacketOuts) = 1

\* a packet-in with buffer id 0 for a known destination: the flow-mod names
\* no buffer and no packet-out is sent
C31_BufferZeroNotForwarded ==
    /\ ev.op = "packet_in"
    /\ ev.kind # "lldp"
    /\ ev.buffer_id = 0
    /\ Len(FlowMods) = 1
    /\ FlowMods[1].buffer_id = OFP_NO_BUFFER
    /\ PacketOuts = <<>>

\* C32: no packet is lost from delta accounting.  Every get_network_load
\* call uses the delta packet_count - last_packet_count and moves
\* last_packet_count forward by exactly that delta, up to packet_count; no
\* other step moves last_packet_count, and a packet-in counts one packet.
\* Hence the deltas of all calls so far add up to last_packet_count and each
\* counted packet is in exactly one delta.
C32_DeltasAccountForEveryPacket ==
    [][/\ ev'.op = "get_network_load" =>
             /\ ev'.packet_delta = last_packet_count' - last_packet_count
             /\ last_packet_count' = packet_count
             /\ packet_count' = packet_count
       /\ ev'.op # "get_network_load" => last_packet_count' = last_packet_count
       /\ ev'.op = "packet_in" => packet_count' = packet_count + 1]_vars

\* a call that used a delta of two packets after an earlier call had used a
\* delta of one: three packets counted, three accounted for
C32_SecondDeltaAfterPackets ==
    /\ ev.op = "get_network_load"
    /\ ev.packet_delta = 2
    /\ packet_count = 3
    /\ last_packet_count = 3

\* C33 (as stated): an apply_intent that returns False has issued no
\* flow-mod and has left no intent under its id in the store; an apply_intent
\* that returns True has stored an intent under its id with status active.
C33_FailedApplyIssuedNothing ==
    (ev.op = "apply_intent" /\ ev.ret # "pending") =>
        IF ev.ret = "False"
        THEN ev.issued = 0 /\ ev.id \notin Ids(intents)
        ELSE \E i \in DOMAIN intents :
                intents[i].id = ev.id /\ intents[i].status = "active"

\* an apply_intent that returned False after it had sent its flow-mod to
\* both registered switches
C33_FailedApplyAfterFlowMods ==
    /\ ev.op = "apply_intent"
    /\ ev.ret = "False"
    /\ ev.issued = 2
    /\ ~ev.raised
    /\ ev.id \notin Ids(intents)

\* C34: a chat request whose reply has an action other than "apply" leaves
\* the Intent Store as it was, sends no flow-mod and takes no intent id; a
\* chat request adds an intent only when the reply has action "apply" and a
\* non-empty intent.
C34_OnlyApplyChangesController ==
    [][ev'.op = "chat" =>
          /\ ev'.action # "apply" =>
                /\ intents' = intents
                /\ next_intent_id' = next_intent_id
                /\ sent' = <<>>
                /\ UNCHANGED <<registryVars, macVars, statsVars>>
          /\ intents' # intents =>
                /\ ev'.action = "apply"
                /\ ev'.intent # EmptyDict]_vars

\* a chat request answered with "propose" and an intent, while an intent is
\* stored: the store and the next id are what they were
C34_ProposalNotApplied ==
    /\ ev.op = "chat"
    /\ ev.ret = "propose"
    /\ intents # <<>>
    /\ intents = ev.before
    /\ next_intent_id = Len(assigned) + 1

\* C35: two chat requests that are in the apply step at the same time never
\* obtain the same intent id, and neither overwrites the intent the other
\* has stored: a request that takes an id while another is blocked inside
\* apply_intent takes a different id, leaves the other's record as stored,
\* and every id is handed out once.
C35_ConcurrentAppliesTakeDistinctIds ==
    [][/\ \A i, j \in DOMAIN assigned' : i # j => assigned'[i] # assigned'[j]
       /\ (applying.pc = "send_msg" /\ ev'.op = "chat") =>
             /\ ev'.id # applying.id
             /\ \E i \in DOMAIN intents' :
                   /\ intents'[i].id = applying.id
                   /\ intents'[i] = applying.intent]_vars

\* a chat request was applied under id 2 while the request that holds id 1
\* is still blocked inside apply_intent; both records are stored
C35_SecondApplyWhileFirstBlocked ==
    /\ applying.pc = "send_msg"
    /\ applying.id = 1
    /\ ev.op = "chat"
    /\ ev.ret = "applied"
    /\ ev.id = 2
    /\ Ids(intents) = {1, 2}

\* C36: a delete of an intent (delete_intent, delete_all_intents,
\* remove_intent) sends no message to any switch and leaves the registry, the
\* MAC table and the stats snapshots as they were; only the store changes.
C36_DeleteSendsNothing ==
    [][ev'.op \in {"delete_intent", "delete_all_intents", "remove_intent"} =>
          /\ sent' = <<>>
          /\ UNCHANGED <<registryVars, macVars, statsVars>>
          /\ next_intent_id' = next_intent_id]_vars

\* an intent whose flow-mod went to switch 1 was deleted from the store of
\* the v2 program: the switch is registered, an address and a stats snapshot
\* are held, and nothing was sent
C36_AppliedIntentDeleted ==
    /\ ver = 2
    /\ ev.op \in {"delete_intent", "delete_all_intents"}
    /\ ev.before # <<>>
    /\ intents = <<>>
    /\ datapaths = <<1>>
    /\ mac_to_port # EmptyDict
    /\ flows # EmptyDict
    /\ sent = <<>>

C38_UserLeftWithLiveConversation ==
    ev.op = "process_message"
        => /\ ev.user_id \in DOMAIN conversations
           /\ LET history == conversations[ev.user_id].history
              IN  /\ history # <<>>
                  /\ history[Len(history)] = [user |-> ev.message, bot |-> ev.ret]
                  /\ Len(history) <= max_history
           /\ conversations[ev.user_id].last_active = now

\* a message of a user whose conversation had expired: the conversation was
\* removed, none was created and the reply is the error reply
C38_ExpiredConversationMessageFails ==
    /\ ev.op = "process_message"
    /\ ev.user_id \in DOMAIN ev.before
    /\ now - ev.before[ev.user_id].last_active > timeout
    /\ ev.user_id \notin DOMAIN conversations
    /\ ev.ret.action = "error"

====
